---------------------------- MODULE Spec2Model ----------------------------
(***************************************************************************)
(* Snapshot archive subsystem of runtime/src/snapshot_utils.rs: archive    *)
(* naming and discovery, the archive writer (archive_snapshot_package),    *)
(* retention (purge_old_snapshot_archives) and the restorer                *)
(* (do_bank_from_snapshot_archives).                                       *)
(*                                                                         *)
(* A file name is a sequence of tokens.  The literal parts of the grammar  *)
(* ("snapshot-", "incremental-", "tmp-", ".", "-") are tokens of their     *)
(* own, decimal digits are one token each, and the remaining tokens are    *)
(* alphanumeric words.  Option values are sequences: None is << >> and     *)
(* Some(x) is <<x>>.                                                       *)
(***************************************************************************)
EXTENDS Integers, Sequences, FiniteSets, TLC

\* ------------------------------------------------------------------ bounds
\* Highest slot a bank reaches.
MaxSlot == 2
\* Highest maximum_snapshots_to_retain a caller passes.
MaxRetain == 2
\* Most temporary archives that failed calls leave behind in the directory.
MaxAbandoned == 1
\* Highest slot of a full archive in a directory handed to purge.
MaxDirSlot == 4

None == << >>
Some(x) == <<x>>
IsSome(o) == Len(o) = 1
Unwrap(o) == o[1]

\* ------------------------------------------------------- tokens and numbers
Digits == <<"0", "1", "2", "3", "4", "5", "6", "7", "8", "9">>

\* A run of digits that \d+ matches and that does not fit a u64 (2^64).
OverflowDigits == "18446744073709551616"

DigitToks == {Digits[i] : i \in 1..10} \cup {OverflowDigits}

\* Base58 letters used for hashes, one per account value (0 = no account).
HashLetters == <<"a", "b", "c", "d", "e", "f", "g">>

\* [[:alnum:]]: digits, hash letters, the words of the extensions, the
\* random suffix of a temporary name, and a word that is alphanumeric but
\* not base58.
AlnumToks ==
    DigitToks \cup {HashLetters[i] : i \in 1..Len(HashLetters)}
              \cup {"tar", "bz2", "zst", "gz", "x", "O0Il"}

DigitVal(t) == CHOOSE i \in 0..9 : Digits[i + 1] = t

RECURSIVE DecStr(_)
\* slot.to_string(): the decimal digits of n, no leading zero.
DecStr(n) ==
    IF n < 10 THEN <<Digits[n + 1]>>
    ELSE DecStr(n \div 10) \o <<Digits[(n % 10) + 1]>>

RECURSIVE DecVal(_)
DecVal(ds) ==
    IF Len(ds) = 0 THEN 0
    ELSE 10 * DecVal(SubSeq(ds, 1, Len(ds) - 1)) + DigitVal(ds[Len(ds)])

\* str::parse::<Slot>() on a capture of \d+: leading zeros are accepted, a
\* value above u64::MAX is an error.
ParseSlot(ds) ==
    IF Len(ds) = 0 \/ \E i \in 1..Len(ds) : ds[i] = OverflowDigits
    THEN None
    ELSE Some(DecVal(ds))

\* ------------------------------------------------------------ archive format
ArchiveFormat == {"TarBzip2", "TarGzip", "TarZstd", "Tar"}

get_archive_ext(archive_format) ==
    CASE archive_format = "TarBzip2" -> <<"tar", ".", "bz2">>
      [] archive_format = "TarGzip"  -> <<"tar", ".", "gz">>
      [] archive_format = "TarZstd"  -> <<"tar", ".", "zst">>
      [] archive_format = "Tar"      -> <<"tar">>

archive_format_from_str(ext) ==
    CASE ext = <<"tar", ".", "bz2">> -> Some("TarBzip2")
      [] ext = <<"tar", ".", "gz">>  -> Some("TarGzip")
      [] ext = <<"tar", ".", "zst">> -> Some("TarZstd")
      [] ext = <<"tar">>             -> Some("Tar")
      [] OTHER                       -> None

\* ------------------------------------------------------------------- hashes
Keys == {"k1", "k2"}
KeySeq == <<"k1", "k2">>

\* Display for Hash: one base58 letter per account, in key order.
HashStr(hash) == [i \in 1..Len(KeySeq) |-> HashLetters[hash[KeySeq[i]] + 1]]

LetterVal(t) == CHOOSE v \in 0..(Len(HashLetters) - 1) : HashLetters[v + 1] = t

\* str::parse::<Hash>(): base58 text of exactly the hash's length.
ParseHash(hs) ==
    IF Len(hs) = Len(KeySeq)
       /\ \A i \in 1..Len(hs) : \E v \in 0..(Len(HashLetters) - 1) : HashLetters[v + 1] = hs[i]
    THEN Some([k \in Keys |-> LetterVal(hs[CHOOSE i \in 1..Len(KeySeq) : KeySeq[i] = k])])
    ELSE None

\* ------------------------------------------------------------ file names
TMP_SNAPSHOT_PREFIX == <<"tmp-", "snapshot-">>
TMP_INCREMENTAL_SNAPSHOT_PREFIX == <<"tmp-", "incremental-", "snapshot-">>

starts_with(name, prefix) ==
    Len(name) >= Len(prefix) /\ SubSeq(name, 1, Len(prefix)) = prefix

\* Last index of the longest run of tokens of class Cls starting at i
\* (i - 1 when the run is empty).
RunEnd(s, i, Cls) ==
    CHOOSE j \in (i - 1)..Len(s) :
        /\ \A k \in i..j : s[k] \in Cls
        /\ (j = Len(s) \/ s[j + 1] \notin Cls)

\* The extensions the regexes list: tar, tar.bz2, tar.zst, tar.gz.
ArchiveExts == {get_archive_ext(f) : f \in ArchiveFormat}

\* (\d+)- repeated nslots times from index i: the digit runs followed by the
\* index after the last "-", or None.
RECURSIVE SlotCaptures(_, _, _)
SlotRun(name, i, j, nslots, rest) ==
    IF j >= i /\ j < Len(name) /\ name[j + 1] = "-" /\ IsSome(rest)
    THEN Some(<<SubSeq(name, i, j)>> \o Unwrap(rest))
    ELSE None

SlotCaptures(name, i, nslots) ==
    IF nslots = 0 THEN Some(<<i>>)
    ELSE IF i > Len(name) THEN None
    ELSE SlotRun(name, i, RunEnd(name, i, DigitToks), nslots,
                 SlotCaptures(name, RunEnd(name, i, DigitToks) + 2, nslots - 1))

\* ([[:alnum:]]+)\.(ext)$ from index i, after the slot captures `slots`.
HashAndExt(name, slots, i, j) ==
    IF j >= i /\ j < Len(name) /\ name[j + 1] = "."
       /\ SubSeq(name, j + 2, Len(name)) \in ArchiveExts
    THEN Some(slots \o <<SubSeq(name, i, j), SubSeq(name, j + 2, Len(name))>>)
    ELSE None

AfterSlots(name, sc, nslots) ==
    IF ~IsSome(sc) THEN None
    ELSE HashAndExt(name, SubSeq(Unwrap(sc), 1, nslots), Unwrap(sc)[nslots + 1],
                    RunEnd(name, Unwrap(sc)[nslots + 1], AlnumToks))

\* The pattern without its ^ anchor: a leading "tmp-" is skipped.
RegexCaptures_unanchored(name, prefix, nslots) ==
    IF starts_with(name, <<"tmp-">> \o prefix)
    THEN AfterSlots(Tail(name), SlotCaptures(Tail(name), Len(prefix) + 1, nslots), nslots)
    ELSE IF ~starts_with(name, prefix) THEN None
    ELSE AfterSlots(name, SlotCaptures(name, Len(prefix) + 1, nslots), nslots)

\* ^prefix(\d+)-...-([[:alnum:]]+)\.(ext)$ : the captures, or None.
RegexCaptures(name, prefix, nslots) ==
    IF ~starts_with(name, prefix) THEN None
    ELSE AfterSlots(name, SlotCaptures(name, Len(prefix) + 1, nslots), nslots)

SNAPSHOT_ARCHIVE_FILENAME_REGEX(name) == RegexCaptures(name, <<"snapshot-">>, 1)

INCREMENTAL_SNAPSHOT_ARCHIVE_FILENAME_REGEX(name) ==
    RegexCaptures(name, <<"incremental-", "snapshot-">>, 2)

build_snapshot_archive_path(slot, hash, archive_format) ==
    <<"snapshot-">> \o DecStr(slot) \o <<"-">> \o HashStr(hash)
        \o <<".">> \o get_archive_ext(archive_format)

build_incremental_snapshot_archive_path(base_slot, slot, hash, archive_format) ==
    <<"incremental-", "snapshot-">> \o DecStr(base_slot) \o <<"-">> \o DecStr(slot)
        \o <<"-">> \o HashStr(hash) \o <<".">> \o get_archive_ext(archive_format)

SnapshotArchiveFields(slot, hash, archive_format) ==
    IF IsSome(slot) /\ IsSome(hash) /\ IsSome(archive_format)
    THEN Some([slot |-> Unwrap(slot), hash |-> Unwrap(hash),
               archive_format |-> Unwrap(archive_format)])
    ELSE None

SnapshotArchiveCaptures(captures) ==
    IF ~IsSome(captures) THEN None
    ELSE SnapshotArchiveFields(ParseSlot(Unwrap(captures)[1]),
                               ParseHash(Unwrap(captures)[2]),
                               archive_format_from_str(Unwrap(captures)[3]))

parse_snapshot_archive_filename(archive_filename) ==
    SnapshotArchiveCaptures(SNAPSHOT_ARCHIVE_FILENAME_REGEX(archive_filename))

IncrementalSnapshotArchiveFields(base_slot, slot, hash, archive_format) ==
    IF IsSome(base_slot) /\ IsSome(slot) /\ IsSome(hash) /\ IsSome(archive_format)
    THEN Some([base_slot |-> Unwrap(base_slot), slot |-> Unwrap(slot),
               hash |-> Unwrap(hash), archive_format |-> Unwrap(archive_format)])
    ELSE None

IncrementalSnapshotArchiveCaptures(captures) ==
    IF ~IsSome(captures) THEN None
    ELSE IncrementalSnapshotArchiveFields(ParseSlot(Unwrap(captures)[1]),
                                          ParseSlot(Unwrap(captures)[2]),
                                          ParseHash(Unwrap(captures)[3]),
                                          archive_format_from_str(Unwrap(captures)[4]))

parse_incremental_snapshot_archive_filename(archive_filename) ==
    IncrementalSnapshotArchiveCaptures(
        INCREMENTAL_SNAPSHOT_ARCHIVE_FILENAME_REGEX(archive_filename))

\* ------------------------------------------------------ directory discovery
\* A directory is a set of entries [name, kind], kind "file" or "dir".
File(name) == [name |-> name, kind |-> "file"]
Directory(name) == [name |-> name, kind |-> "dir"]

\* The archive info of a directory entry: its path with the parsed fields,
\* or None for a directory and for a name the parser rejects.
WithPath(path, info) ==
    IF IsSome(info) THEN Some([path |-> path] @@ Unwrap(info)) ELSE None

SnapshotArchiveInfo(entry) ==
    IF entry.kind # "file" THEN None
    ELSE WithPath(entry.name, parse_snapshot_archive_filename(entry.name))

IncrementalSnapshotArchiveInfo(entry) ==
    IF entry.kind # "file" THEN None
    ELSE WithPath(entry.name, parse_incremental_snapshot_archive_filename(entry.name))

Somes(options) == {Unwrap(o) : o \in {x \in options : IsSome(x)}}

get_snapshot_archives(snapshot_output_dir) ==
    Somes({SnapshotArchiveInfo(e) : e \in snapshot_output_dir})

RECURSIVE sort_snapshot_archives(_)
\* sort_unstable_by(|a, b| b.slot.cmp(&a.slot)) on the entries in the order
\* read_dir gave them: every arrangement that descends by slot is a possible
\* outcome (archives of equal slot come in any order).
sort_snapshot_archives(snapshot_archives) ==
    IF snapshot_archives = {} THEN {<< >>}
    ELSE UNION {{<<a>> \o t : t \in sort_snapshot_archives(snapshot_archives \ {a})} :
                  a \in {x \in snapshot_archives :
                           \A y \in snapshot_archives : y.slot <= x.slot}}

get_sorted_snapshot_archives(snapshot_output_dir) ==
    sort_snapshot_archives(get_snapshot_archives(snapshot_output_dir))

get_incremental_snapshot_archives(snapshot_output_dir) ==
    Somes({IncrementalSnapshotArchiveInfo(e) : e \in snapshot_output_dir})

MaxOf(S) == CHOOSE s \in S : \A o \in S : o <= s

\* get_highest_snapshot_archive_info(dir).map(|info| info.slot): the slot of
\* the first archive of the sorted list.
HighestSlot(archives) ==
    IF archives = {} THEN None ELSE Some(MaxOf({a.slot : a \in archives}))

get_highest_snapshot_archive_slot(snapshot_output_dir) ==
    HighestSlot(get_snapshot_archives(snapshot_output_dir))

\* into_iter().next() of a sorted list.
FirstOf(sorted) == IF sorted = << >> THEN None ELSE Some(sorted[1])

\* The outcomes of get_highest_snapshot_archive_info (archives of the same
\* slot come in any order).
get_highest_snapshot_archive_info(snapshot_output_dir) ==
    {FirstOf(sorted) : sorted \in get_sorted_snapshot_archives(snapshot_output_dir)}

RECURSIVE sort_incremental_snapshot_archives(_)
\* sort_unstable_by(|a, b| b.base_slot.cmp(&a.base_slot).then(b.slot.cmp(&a.slot))):
\* every arrangement that descends by (base_slot, slot).
sort_incremental_snapshot_archives(incremental_snapshot_archives) ==
    IF incremental_snapshot_archives = {} THEN {<< >>}
    ELSE UNION {{<<a>> \o t :
                    t \in sort_incremental_snapshot_archives(
                              incremental_snapshot_archives \ {a})} :
                  a \in {x \in incremental_snapshot_archives :
                           \A y \in incremental_snapshot_archives :
                              \/ y.base_slot < x.base_slot
                              \/ y.base_slot = x.base_slot /\ y.slot <= x.slot}}

\* The list sorted without the filter on the base slot.
get_highest_incremental_snapshot_archive_info_unfiltered(snapshot_output_dir, full_snapshot_slot) ==
    {FirstOf(sorted) :
        sorted \in sort_incremental_snapshot_archives(
                       get_incremental_snapshot_archives(snapshot_output_dir))}

get_highest_incremental_snapshot_archive_info(snapshot_output_dir, full_snapshot_slot) ==
    {FirstOf(sorted) :
        sorted \in sort_incremental_snapshot_archives(
                       {x \in get_incremental_snapshot_archives(snapshot_output_dir) :
                           x.base_slot = full_snapshot_slot})}

\* Option::map(|info| info.slot)
SlotOf(info) == IF IsSome(info) THEN Some(Unwrap(info).slot) ELSE None

get_highest_incremental_snapshot_archive_slot(snapshot_output_dir, full_snapshot_slot) ==
    {SlotOf(info) :
        info \in get_highest_incremental_snapshot_archive_info(snapshot_output_dir,
                                                               full_snapshot_slot)}

\* Option<Slot>'s derived order: None < Some(_), Some(a) < Some(b) iff a < b.
OptionLess(a, b) ==
    IF ~IsSome(b) THEN FALSE
    ELSE IF ~IsSome(a) THEN TRUE
    ELSE Unwrap(a) < Unwrap(b)

\* The floor of one forgotten: the retention is taken as given.
Max_without_floor(a, b) == b

Max(a, b) == IF a >= b THEN a ELSE b

\* fs::remove_file on each path of `paths`; the ones in `undeletable` fail,
\* which is logged and ignored.
\* The first deletion that fails ends the purge.
remove_files_or_abort(d, paths, undeletable) ==
    IF paths \cap undeletable # {} THEN d
    ELSE {e \in d : ~(e.kind = "file" /\ e.name \in paths)}

remove_files(d, paths, undeletable) ==
    {e \in d : ~(e.kind = "file" /\ e.name \in paths /\ e.name \notin undeletable)}

\* The oldest archive not set aside before the newest are counted.
OldArchives_without_pop(archives, max_snaps) ==
    {archives[i].path : i \in (max_snaps + 1)..Len(archives)}

\* One archive deleted per purge: the first one past those retained.
OldArchives_first_only(archives, max_snaps) ==
    {archives[i].path : i \in {j \in (max_snaps + 1)..(Len(archives) - 1) :
                                  j = max_snaps + 1}}

\* snapshot_archives.pop(); snapshot_archives.into_iter().skip(max_snaps)
OldArchives(archives, max_snaps) ==
    {archives[i].path : i \in (max_snaps + 1)..(Len(archives) - 1)}

\* The incremental archives whose base slot is below the highest full slot.
OldIncrementals(incrementals, last_full_snapshot_slot) ==
    {a.path : a \in {x \in incrementals :
                        OptionLess(Some(x.base_slot), last_full_snapshot_slot)}}

PurgeIncrementals(snapshot_output_dir, undeletable) ==
    remove_files(snapshot_output_dir,
                 OldIncrementals(get_incremental_snapshot_archives(snapshot_output_dir),
                                 get_highest_snapshot_archive_slot(snapshot_output_dir)),
                 undeletable)

\* The purge also sweeping what carries the temporary prefix.
purge_old_snapshot_archives_and_tmp(snapshot_output_dir, maximum_snapshots_to_retain, archives, undeletable) ==
    {e \in PurgeIncrementals(
               remove_files(snapshot_output_dir,
                            OldArchives(archives, Max(1, maximum_snapshots_to_retain)),
                            undeletable),
               undeletable) :
        ~starts_with(e.name, TMP_SNAPSHOT_PREFIX)}

\* `archives` is the sorted list get_sorted_snapshot_archives returned.
purge_old_snapshot_archives(snapshot_output_dir, maximum_snapshots_to_retain, archives, undeletable) ==
    PurgeIncrementals(
        remove_files(snapshot_output_dir,
                     OldArchives(archives, Max(1, maximum_snapshots_to_retain)),
                     undeletable),
        undeletable)

\* ------------------------------------------------------------ compatibility
Ok(v) == [tag |-> "Ok", val |-> v]
Err(kind, v) == [tag |-> kind, val |-> v]

\* The two slots of the mismatch error in the other order.
CompatibleInfos_swapped(full, incr) ==
    IF ~IsSome(full) THEN Err("PathParseError", << >>)
    ELSE IF ~IsSome(incr) THEN Err("PathParseError", << >>)
    ELSE IF Unwrap(full).slot = Unwrap(incr).base_slot
         THEN Ok(<<Unwrap(full).slot, Unwrap(incr).slot>>)
         ELSE Err("IncompatibleSnapshots", <<Unwrap(incr).base_slot, Unwrap(full).slot>>)

CompatibleInfos(full, incr) ==
    IF ~IsSome(full) THEN Err("PathParseError", << >>)
    ELSE IF ~IsSome(incr) THEN Err("PathParseError", << >>)
    ELSE IF Unwrap(full).slot = Unwrap(incr).base_slot
         THEN Ok(<<Unwrap(full).slot, Unwrap(incr).slot>>)
         ELSE Err("IncompatibleSnapshots", <<Unwrap(full).slot, Unwrap(incr).base_slot>>)

check_are_snapshots_compatible(full_snapshot_archive_path, incremental_snapshot_archive_path) ==
    CompatibleInfos(
        parse_snapshot_archive_filename(full_snapshot_archive_path),
        parse_incremental_snapshot_archive_filename(incremental_snapshot_archive_path))

\* ------------------------------------------------------------------- banks
\* A bank is [slot, hash, storages, slot_deltas].  A storage entry (one
\* append vec) is [slot, id, key, val]: the account `key` was stored with
\* value `val` in that slot.  hash is the accounts hash: the value of every
\* account, read from the highest slot that stores it.
AccountsHash(storages) ==
    [k \in Keys |->
        IF \E e \in storages : e.key = k
        THEN (CHOOSE e \in storages :
                 e.key = k /\ \A o \in storages : o.key = k => o.slot <= e.slot).val
        ELSE 0]

GenesisBank ==
    LET st == {[slot |-> 0, id |-> 0, key |-> "k1", val |-> 1]}
    IN  [slot |-> 0, hash |-> AccountsHash(st), storages |-> st, slot_deltas |-> {0}]

\* Bank::new_from_parent followed by a transfer that stores account k with
\* value v, or by no transfer (w = None); the bank is then complete.
NewFromParent(parent, w) ==
    LET slot == parent.slot + 1
        st == IF IsSome(w)
              THEN parent.storages \cup
                   {[slot |-> slot, id |-> slot, key |-> Unwrap(w)[1], val |-> Unwrap(w)[2]]}
              ELSE parent.storages
    IN  [slot |-> slot, hash |-> AccountsHash(st), storages |-> st,
         slot_deltas |-> IF IsSome(w) THEN parent.slot_deltas \cup {slot}
                         ELSE parent.slot_deltas]

get_snapshot_storages(b) == b.storages

get_incremental_snapshot_storages(b, base_slot) ==
    {e \in b.storages : e.slot > base_slot}

\* AppendVec::file_name(slot, id)
AppendVecFileName(e) == <<e.slot, e.id>>

\* bank_to_stream: the bank's fields and the list of the storages it was
\* serialized with.
bank_to_stream(b, snapshot_storages) ==
    [slot |-> b.slot, hash |-> b.hash,
     storage_ids |-> {AppendVecFileName(e) : e \in snapshot_storages}]

VERSION_STRING_V1_2_0 == <<"1", ".", "2", ".", "0">>

\* FromStr for SnapshotVersion: an optional leading v or V, then 1.2.0.
SnapshotVersionFromStr(version_string) ==
    LET stripped == IF Len(version_string) >= 1 /\ version_string[1] \in {"v", "V"}
                    THEN Tail(version_string) ELSE version_string
    IN  IF stripped = VERSION_STRING_V1_2_0 THEN Some("V1_2_0") ELSE None

\* ------------------------------------------------------------------- state
VARIABLES
    bank,                          \* the working bank (frozen, complete)
    dir,                           \* the snapshot archive output directory
    content,                       \* what each file the writer created holds
    maximum_snapshots_to_retain,   \* the retention every call is given
    w,                             \* the archive writer: position, package, events, result
    r,                             \* the restorer: position, arguments, events, result
    op,                            \* the last directory operation applied and its result
    written                        \* the full archives the writer returned, oldest first

vars == <<bank, dir, content, maximum_snapshots_to_retain, w, r, op, written>>

NoResult == [tag |-> "None", val |-> << >>]
NoOp == [name |-> "none", before |-> {}, args |-> << >>, result |-> NoResult]

WriterIdle == [pc |-> "idle", package |-> None, tar_ok |-> TRUE, log |-> << >>,
               tar_exit_status |-> None, before |-> {}, result |-> NoResult]
RestorerIdle == [pc |-> "idle", full |-> << >>, incremental |-> None, limit |-> None,
                 intact |-> TRUE, log |-> << >>, verified |-> None, result |-> NoResult]

Names(d) == {e.name : e \in d}

\* What one archive file holds.  `of` is the bank the archive was made of
\* (None once the bytes are no longer what the writer wrote).
EmptyArchive ==
    [complete |-> FALSE, version |-> << >>, snapshots |-> None, status_cache |-> {},
     accounts |-> << >>, of |-> None, base |-> None]

\* The status cache never serialized into the snapshot directory.
TarContent_without_status_cache(package) ==
    [complete |-> TRUE,
     version |-> package.snapshot_version,
     snapshots |-> Some(package.snapshot_links),
     status_cache |-> {},
     accounts |-> [fn \in {AppendVecFileName(e) : e \in package.storages} |->
                     LET e == CHOOSE x \in package.storages : AppendVecFileName(x) = fn
                     IN  [key |-> e.key, val |-> e.val]],
     of |-> Some(package.bank),
     base |-> package.base]

\* tar chS -C staging_dir accounts snapshots version, through the compressor.
TarContent(package) ==
    [complete |-> TRUE,
     version |-> package.snapshot_version,
     snapshots |-> Some(package.snapshot_links),
     status_cache |-> package.slot_deltas,
     accounts |-> [fn \in {AppendVecFileName(e) : e \in package.storages} |->
                     LET e == CHOOSE x \in package.storages : AppendVecFileName(x) = fn
                     IN  [key |-> e.key, val |-> e.val]],
     of |-> Some(package.bank),
     base |-> package.base]

\* The archive format the caller passes with a bank of the given slot: each
\* of the four in turn.
CallerFormats == <<"Tar", "TarBzip2", "TarZstd", "TarGzip">>
FormatOf(slot) == CallerFormats[(slot % Len(CallerFormats)) + 1]

\* package_snapshot / package_incremental_snapshot followed by
\* do_process_accounts_package_pre: the final package and its archive path.
AccountsPackage(b, storages, base) ==
    [slot |-> b.slot,
     slot_deltas |-> b.slot_deltas,
     snapshot_links |-> bank_to_stream(b, storages),
     storages |-> storages,
     tar_output_file |->
        IF IsSome(base)
        THEN build_incremental_snapshot_archive_path(Unwrap(base), b.slot, b.hash,
                                                     FormatOf(b.slot))
        ELSE build_snapshot_archive_path(b.slot, b.hash, FormatOf(b.slot)),
     hash |-> b.hash,
     archive_format |-> FormatOf(b.slot),
     snapshot_version |-> VERSION_STRING_V1_2_0,
     bank |-> b,
     base |-> base]

StagingDirName(package) ==
    TMP_SNAPSHOT_PREFIX \o DecStr(package.slot) \o <<"-", "x">>

\* The archive written straight to its public name.
TmpArchivePath_public(package) == package.tar_output_file

TmpArchivePath(package) ==
    TMP_SNAPSHOT_PREFIX \o DecStr(package.slot) \o <<".">>
        \o get_archive_ext(package.archive_format)

Restrict(f, S) == [x \in S |-> f[x]]

Init ==
    /\ bank = GenesisBank
    /\ dir = {}
    /\ content = << >>
    /\ maximum_snapshots_to_retain \in 0..MaxRetain
    /\ w = WriterIdle
    /\ r = RestorerIdle
    /\ op = NoOp
    /\ written = << >>

\* ------------------------------------------------------------------ the bank
\* The account a transfer of the given slot credits, and the value it leaves
\* there (another one in every slot).
WriteKey(slot) == KeySeq[(slot % Len(KeySeq)) + 1]
WriteVal(slot) == slot + 1

Advance ==
    /\ w.pc = "idle" /\ r.pc = "idle"
    /\ bank.slot < MaxSlot
    /\ \E wr \in {None, Some(<<WriteKey(bank.slot + 1), WriteVal(bank.slot + 1)>>)} :
          bank' = NewFromParent(bank, wr)
    /\ UNCHANGED <<dir, content, maximum_snapshots_to_retain, w, r, op, written>>

\* ------------------------------------------------------- the archive writer
\* bank_to_snapshot_archive / bank_to_incremental_snapshot_archive up to the
\* creation of the staging directory in archive_snapshot_package.  One build
\* per archive is the caller's obligation.
BeginArchive(package) ==
    /\ w.pc = "idle" /\ r.pc = "idle"
    /\ File(package.tar_output_file) \notin dir
    /\ dir' = dir \cup {Directory(StagingDirName(package))}
    /\ w' = [pc |-> "staging", package |-> Some(package), tar_ok |-> TRUE,
             log |-> <<"serialize_status_cache", "create_staging_dir",
                       "symlink_snapshots">>,
             tar_exit_status |-> None, before |-> dir, result |-> NoResult]
    /\ UNCHANGED <<bank, content, maximum_snapshots_to_retain, r, op, written>>

BankToSnapshotArchive ==
    BeginArchive(AccountsPackage(bank, get_snapshot_storages(bank), None))

BankToIncrementalSnapshotArchive ==
    \E full \in get_snapshot_archives(dir) :
        /\ bank.slot > full.slot
        /\ BeginArchive(AccountsPackage(
               bank, get_incremental_snapshot_storages(bank, full.slot),
               Some(full.slot)))

\* The call returns: the staging TempDir is dropped.
Return(result) ==
    /\ dir' = dir \ {Directory(StagingDirName(Unwrap(w.package)))}
    /\ w' = [w EXCEPT !.pc = "done", !.result = result]

\* The temporary archive files in the directory: the one being written and
\* those that failed calls have left behind.
Abandoned(d) == {e \in d : e.kind = "file" /\ starts_with(e.name, TMP_SNAPSHOT_PREFIX)}

\* An error return after the events given.  What a temporary archive left
\* behind holds is not tracked any further.
FailAfter(events, tar_exit_status, error) ==
    /\ Cardinality(Abandoned(dir)) <= MaxAbandoned
    /\ dir' = dir \ {Directory(StagingDirName(Unwrap(w.package)))}
    /\ w' = [w EXCEPT !.pc = "done", !.log = @ \o events,
                      !.tar_exit_status = tar_exit_status, !.result = error]
    /\ content' = Restrict(content, DOMAIN content \ {TmpArchivePath(Unwrap(w.package))})
    /\ UNCHANGED <<bank, maximum_snapshots_to_retain, r, op, written>>

Fail(error) == FailAfter(<< >>, None, Err(error, << >>))

\* The storages loop run over the first n storages of the package: each is
\* flushed, then linked into staging/accounts.
StorageEvents(n) == [k \in 1..(2 * n) |-> IF k % 2 = 1 THEN "flush" ELSE "symlink_file"]

SymlinkStorages ==
    /\ w.pc = "staging"
    /\ w' = [w EXCEPT !.pc = "staged",
                      !.log = @ \o StorageEvents(Cardinality(Unwrap(w.package).storages))
                                \o <<"write_version">>]
    /\ UNCHANGED <<bank, dir, content, maximum_snapshots_to_retain, r, op, written>>

\* The link of every storage found valid, the version file written, and the
\* error raised only then.
SymlinkInvalid_after_version ==
    /\ w.pc = "staging"
    /\ Unwrap(w.package).storages # {}
    /\ FailAfter(StorageEvents(Cardinality(Unwrap(w.package).storages))
                     \o <<"write_version">>,
                 None, Err("StoragePathSymlinkInvalid", << >>))

\* The link of the n-th storage does not resolve to a regular file.
SymlinkInvalid ==
    /\ w.pc = "staging"
    /\ \E n \in 1..Cardinality(Unwrap(w.package).storages) :
          FailAfter(StorageEvents(n), None, Err("StoragePathSymlinkInvalid", << >>))

\* tar is spawned and the temporary archive file is created.
TarSpawn ==
    /\ w.pc = "staged"
    /\ \E ok \in {TRUE} \cup
                  {x \in {FALSE} : Cardinality(Abandoned(dir) \cup
                      {File(TmpArchivePath(Unwrap(w.package)))}) <= MaxAbandoned} :
          w' = [w EXCEPT !.pc = "spawned", !.tar_ok = ok,
                         !.log = @ \o <<"tar_spawn", "create_tmp_archive">>]
    /\ dir' = dir \cup {File(TmpArchivePath(Unwrap(w.package)))}
    /\ content' = [n \in DOMAIN content \cup {TmpArchivePath(Unwrap(w.package))} |->
                      IF n = TmpArchivePath(Unwrap(w.package)) THEN EmptyArchive
                      ELSE content[n]]
    /\ UNCHANGED <<bank, maximum_snapshots_to_retain, r, op, written>>

\* io::copy of tar's output into the compressor, then encoder.finish().
TarCopy ==
    /\ w.pc = "spawned"
    /\ w' = [w EXCEPT !.pc = "copied", !.log = @ \o <<"copy", "finish">>]
    /\ content' = [content EXCEPT ![TmpArchivePath(Unwrap(w.package))] =
                      [TarContent(Unwrap(w.package)) EXCEPT !.complete = w.tar_ok]]
    /\ UNCHANGED <<bank, dir, maximum_snapshots_to_retain, r, op, written>>

CopyFail ==
    /\ w.pc = "spawned"
    /\ Fail("Io")

\* The purge run once tar has exited, before the rename.
TarWaitOk_then_purge ==
    /\ w.pc = "copied" /\ w.tar_ok
    /\ \E archives \in get_sorted_snapshot_archives(dir) :
          dir' = purge_old_snapshot_archives(dir, maximum_snapshots_to_retain,
                                             archives, {})
    /\ content' = Restrict(content, DOMAIN content \cap Names(dir'))
    /\ w' = [w EXCEPT !.pc = "waited", !.log = @ \o <<"tar_wait", "purge">>,
                      !.tar_exit_status = Some(0)]
    /\ UNCHANGED <<bank, maximum_snapshots_to_retain, r, op, written>>

TarWaitOk ==
    /\ w.pc = "copied" /\ w.tar_ok
    /\ w' = [w EXCEPT !.pc = "waited", !.log = @ \o <<"tar_wait">>,
                      !.tar_exit_status = Some(0)]
    /\ UNCHANGED <<bank, dir, content, maximum_snapshots_to_retain, r, op, written>>

\* The exit statuses of a tar that failed.
TarFailures == {1, 2}

\* The exit status of tar not looked at: the call goes on to the rename.
TarWaitFail_ignored ==
    /\ w.pc = "copied" /\ ~w.tar_ok
    /\ \E tar_exit_status \in TarFailures :
          w' = [w EXCEPT !.pc = "waited", !.log = @ \o <<"tar_wait">>,
                         !.tar_exit_status = Some(tar_exit_status)]
    /\ UNCHANGED <<bank, dir, content, maximum_snapshots_to_retain, r, op, written>>

TarWaitFail ==
    /\ w.pc = "copied" /\ ~w.tar_ok
    /\ \E tar_exit_status \in TarFailures :
          FailAfter(<<"tar_wait">>, Some(tar_exit_status),
                    Err("ArchiveGenerationFailure", tar_exit_status))

\* fs::rename(&archive_path, &snapshot_package.tar_output_file)
Rename ==
    /\ w.pc = "waited"
    /\ LET tmp == TmpArchivePath(Unwrap(w.package))
           out == Unwrap(w.package).tar_output_file
       IN  /\ dir' = (dir \ {File(tmp)}) \cup {File(out)}
           /\ content' = [n \in (DOMAIN content \ {tmp}) \cup {out} |->
                             IF n = out THEN content[tmp] ELSE content[n]]
    /\ w' = [w EXCEPT !.pc = "renamed", !.log = @ \o <<"rename">>]
    /\ UNCHANGED <<bank, maximum_snapshots_to_retain, r, op, written>>

RenameFail ==
    /\ w.pc = "waited"
    /\ Fail("Io")

Purge ==
    /\ w.pc = "renamed"
    /\ \E archives \in get_sorted_snapshot_archives(dir) :
          dir' = purge_old_snapshot_archives(dir, maximum_snapshots_to_retain,
                                             archives, {})
    /\ content' = Restrict(content, DOMAIN content \cap Names(dir'))
    /\ w' = [w EXCEPT !.pc = "purged", !.log = @ \o <<"purge">>]
    /\ UNCHANGED <<bank, maximum_snapshots_to_retain, r, op, written>>

ReturnOk ==
    /\ w.pc = "purged"
    /\ Return(Ok(Unwrap(w.package).tar_output_file))
    /\ written' = IF IsSome(Unwrap(w.package).base) THEN written
                  ELSE Append(written, Unwrap(w.package).tar_output_file)
    /\ UNCHANGED <<bank, content, maximum_snapshots_to_retain, r, op>>

\* The caller has looked at the result; the writer is ready for the next call.
Finish ==
    /\ w.pc = "done"
    /\ w' = WriterIdle
    /\ UNCHANGED <<bank, dir, content, maximum_snapshots_to_retain, r, op, written>>

Writer ==
    \/ BankToSnapshotArchive
    \/ BankToIncrementalSnapshotArchive
    \/ SymlinkStorages
    \/ SymlinkInvalid
    \/ TarSpawn
    \/ TarCopy
    \/ CopyFail
    \/ TarWaitOk
    \/ TarWaitFail
    \/ Rename
    \/ RenameFail
    \/ Purge
    \/ ReturnOk
    \/ Finish

\* ------------------------------------------------------------- the restorer
\* untar_snapshot_in and the read of the version file: the unpacked tree,
\* or an error for a file that is no complete archive.
do_snapshot_unarchive_preparation(disk, snapshot_archive_path) ==
    IF disk[snapshot_archive_path].complete
    THEN Ok(disk[snapshot_archive_path])
    ELSE Err("UnpackError", << >>)

\* The map replaced by the other one instead of extended with it.
Extend_replaced(map, other) == other

\* On a key of both maps the entry of `map` is kept.
Extend_keep_first(map, other) ==
    [fn \in DOMAIN map \cup DOMAIN other |->
        IF fn \in DOMAIN map THEN map[fn] ELSE other[fn]]

\* HashMap::extend: the entries of `other` replace those of `map`.
Extend(map, other) ==
    [fn \in DOMAIN map \cup DOMAIN other |->
        IF fn \in DOMAIN other THEN other[fn] ELSE map[fn]]

\* unpacked_append_vec_map = full_snapshot_unpacked_append_vec_map, extended
\* with incremental_snapshot_unpacked_append_vec_map.unwrap_or_default()
MergedAppendVecMap(full_snapshot_unpacked_append_vec_map, incremental_snapshot_unpacked_append_vec_map) ==
    Extend(full_snapshot_unpacked_append_vec_map,
           IF IsSome(incremental_snapshot_unpacked_append_vec_map)
           THEN Unwrap(incremental_snapshot_unpacked_append_vec_map)
           ELSE << >>)

verify_snapshot_version_and_folder(snapshot_version, unpacked_snapshots_dir) ==
    IF ~IsSome(SnapshotVersionFromStr(snapshot_version)) THEN Err("Io", << >>)
    ELSE IF ~IsSome(unpacked_snapshots_dir) THEN Err("Io", << >>)
    ELSE Ok([version |-> Unwrap(SnapshotVersionFromStr(snapshot_version)),
             root_paths |-> Unwrap(unpacked_snapshots_dir)])

\* The storages of the `limit` lowest slots (all of them without a limit).
LimitSlots(storages, limit) ==
    IF ~IsSome(limit) THEN storages
    ELSE {e \in storages :
            Cardinality({o.slot : o \in {x \in storages : x.slot < e.slot}})
                < Unwrap(limit)}

\* bank_from_streams: the bank fields of the incremental stream when there
\* is one, else of the full stream; the storages both streams list, each
\* taken from the unpacked append vec map.
bank_from_streams(full_stream, incremental_stream, unpacked_append_vec_map, limit) ==
    LET fields == IF IsSome(incremental_stream) THEN Unwrap(incremental_stream)
                  ELSE full_stream
        ids == full_stream.storage_ids \cup
               (IF IsSome(incremental_stream) THEN Unwrap(incremental_stream).storage_ids
                ELSE {})
    IN  IF ~(ids \subseteq DOMAIN unpacked_append_vec_map) THEN Err("Io", << >>)
        ELSE Ok([slot |-> fields.slot, hash |-> fields.hash,
                 storages |-> LimitSlots(
                     {[slot |-> fn[1], id |-> fn[2],
                       key |-> unpacked_append_vec_map[fn].key,
                       val |-> unpacked_append_vec_map[fn].val] : fn \in ids}, limit),
                 slot_deltas |-> {}])

\* What rebuild_bank_from_snapshots did and what it returned.
Rebuilt(steps, result) == [steps |-> steps, result |-> result]

UnwrapOr(o, default) == IF IsSome(o) THEN Unwrap(o) ELSE default

\* The status cache always read from the full snapshot's directory.
StatusCacheOf_full(full, incremental) ==
    [from |-> "full", slot_deltas |-> full.status_cache]

\* The status cache file of the incremental snapshot's directory when there
\* is one, else of the full snapshot's.
StatusCacheOf(full, incremental) ==
    IF IsSome(incremental)
    THEN [from |-> "incremental", slot_deltas |-> Unwrap(incremental).status_cache]
    ELSE [from |-> "full", slot_deltas |-> full.status_cache]

\* The slot deltas are deserialized and appended to the bank's status cache.
RebuiltBank(steps, b, status_cache) ==
    IF b.tag # "Ok" THEN Rebuilt(steps, b)
    ELSE Rebuilt(steps \o <<"status_cache", status_cache.from>>,
                 Ok([b.val EXCEPT !.slot_deltas = status_cache.slot_deltas]))

\* deserialize_snapshot_data_files with bank_from_streams in the serde style
\* of the version given.
DeserializedWith(steps, version, full_stream, incremental_stream, unpacked_append_vec_map, limit, status_cache) ==
    RebuiltBank(steps \o <<"bank_from_streams", version>>,
                bank_from_streams(full_stream, incremental_stream,
                                  unpacked_append_vec_map, limit),
                status_cache)

RebuildWithIncremental(full_root, incr_root, status_cache, unpacked_append_vec_map, limit) ==
    IF incr_root.tag # "Ok"
    THEN Rebuilt(<<"verify_full_version", "verify_incremental_version">>, incr_root)
    ELSE DeserializedWith(<<"verify_full_version", "verify_incremental_version">>,
                          UnwrapOr(Some(incr_root.val.version), full_root.val.version),
                          full_root.val.root_paths, Some(incr_root.val.root_paths),
                          unpacked_append_vec_map, limit, status_cache)

RebuildFrom(full_root, full, incremental, unpacked_append_vec_map, limit) ==
    IF full_root.tag # "Ok" THEN Rebuilt(<<"verify_full_version">>, full_root)
    ELSE IF IsSome(incremental)
    THEN RebuildWithIncremental(
             full_root,
             verify_snapshot_version_and_folder(Unwrap(incremental).version,
                                                Unwrap(incremental).snapshots),
             StatusCacheOf(full, incremental), unpacked_append_vec_map, limit)
    ELSE DeserializedWith(<<"verify_full_version">>,
                          UnwrapOr(None, full_root.val.version),
                          full_root.val.root_paths, None,
                          unpacked_append_vec_map, limit,
                          StatusCacheOf(full, incremental))

\* Both version files and snapshot folders are checked, the bank is
\* deserialized from the stream(s) in the style of the incremental
\* snapshot's version when there is one, else of the full snapshot's, and
\* the status cache is read from the incremental snapshot's directory when
\* there is one, else from the full snapshot's.
rebuild_bank_from_snapshots(full, incremental, unpacked_append_vec_map, limit) ==
    RebuildFrom(verify_snapshot_version_and_folder(full.version, full.snapshots),
                full, incremental, unpacked_append_vec_map, limit)

\* Bank::verify_snapshot_bank: the accounts hash recomputed over the
\* reconstructed storages is the one the bank fields carry.
verify_snapshot_bank(b) == AccountsHash(b.storages) = b.hash

\* What a call of the restorer did: the steps it took, the outcome of the
\* verification if it got there, and what it returned.
Outcome(log, verified, result) == [log |-> log, verified |-> verified, result |-> result]

Panic == [tag |-> "Panic", val |-> << >>]

\* The outcome of the verification ignored.
Verified_unchecked(log, b, verified, limit_load_slot_count_from_snapshot) ==
    Outcome(log, Some(verified), Ok(b))

Verified(log, b, verified, limit_load_slot_count_from_snapshot) ==
    IF ~verified /\ ~IsSome(limit_load_slot_count_from_snapshot)
    THEN Outcome(log, Some(verified), Panic)
    ELSE Outcome(log, Some(verified), Ok(b))

AfterRebuild(log, rebuilt, limit) ==
    IF rebuilt.result.tag # "Ok" THEN Outcome(log \o rebuilt.steps, None, rebuilt.result)
    ELSE Verified(log \o rebuilt.steps \o <<"verify">>, rebuilt.result.val,
                  verify_snapshot_bank(rebuilt.result.val), limit)

AfterUnpack(log, full, incremental, limit) ==
    AfterRebuild(
        log \o <<"merge_append_vec_maps", "rebuild_bank">>,
        rebuild_bank_from_snapshots(
            full, incremental,
            MergedAppendVecMap(
                full.accounts,
                IF IsSome(incremental) THEN Some(Unwrap(incremental).accounts) ELSE None),
            limit),
        limit)

AfterIncrementalUnpack(log, full, incr, limit) ==
    IF incr.tag # "Ok" THEN Outcome(log, None, incr)
    ELSE AfterUnpack(log, full, Some(incr.val), limit)

\* The outcome of the compatibility check ignored.
AfterCompatible_ignored(log, disk, full, compat, incremental_snapshot_archive_path, limit) ==
    AfterIncrementalUnpack(
        log \o <<"unpack_incremental">>, full,
        do_snapshot_unarchive_preparation(disk, incremental_snapshot_archive_path),
        limit)

AfterCompatible(log, disk, full, compat, incremental_snapshot_archive_path, limit) ==
    IF compat.tag # "Ok" THEN Outcome(log, None, compat)
    ELSE AfterIncrementalUnpack(
             log \o <<"unpack_incremental">>, full,
             do_snapshot_unarchive_preparation(disk, incremental_snapshot_archive_path),
             limit)

AfterFullUnpack(disk, full_snapshot_archive_path, full, incremental_snapshot_archive_path, limit) ==
    IF full.tag # "Ok" THEN Outcome(<<"unpack_full">>, None, full)
    ELSE IF IsSome(incremental_snapshot_archive_path)
    THEN AfterCompatible(
             <<"unpack_full", "check_compatible">>, disk, full.val,
             check_are_snapshots_compatible(full_snapshot_archive_path,
                                            Unwrap(incremental_snapshot_archive_path)),
             Unwrap(incremental_snapshot_archive_path), limit)
    ELSE AfterUnpack(<<"unpack_full">>, full.val, None, limit)

\* The full archive is unpacked; with an incremental archive, the two are
\* checked for compatibility and the incremental one is unpacked; the append
\* vec maps are merged, the bank is rebuilt and then verified.
do_bank_from_snapshot_archives(disk, full_snapshot_archive_path, incremental_snapshot_archive_path, limit_load_slot_count_from_snapshot) ==
    AfterFullUnpack(disk, full_snapshot_archive_path,
                    do_snapshot_unarchive_preparation(disk, full_snapshot_archive_path),
                    incremental_snapshot_archive_path,
                    limit_load_slot_count_from_snapshot)

\* What the files may read back as when one of them is corrupted: one
\* stored account of one of the archives read has another value.
CorruptedOf(names) ==
    UNION {{[content EXCEPT ![n].accounts[fn].val = (@ % (MaxSlot + 1)) + 1,
                            ![n].of = None] : fn \in DOMAIN content[n].accounts} :
           n \in {x \in names : content[x].complete}}

RestorerDone(full, incremental, limit, intact, out) ==
    [pc |-> "done", full |-> full, incremental |-> incremental, limit |-> limit,
     intact |-> intact, log |-> out.log, verified |-> out.verified,
     result |-> out.result]

\* bank_from_snapshot_archive / bank_from_incremental_snapshot_archive on
\* files of the output directory.
BankFromSnapshotArchive ==
    /\ w.pc = "idle" /\ r.pc = "idle"
    /\ \E full \in DOMAIN content,
          incremental \in {None} \cup {Some(n) : n \in DOMAIN content},
          limit \in {None, Some(1)} :
          \E disk \in {content} \cup CorruptedOf({full} \cup {incremental[i] : i \in DOMAIN incremental}) :
             r' = RestorerDone(full, incremental, limit, disk = content,
                               do_bank_from_snapshot_archives(disk, full, incremental, limit))
    /\ UNCHANGED <<bank, dir, content, maximum_snapshots_to_retain, w, op, written>>

RestoreFinish ==
    /\ r.pc = "done"
    /\ r' = RestorerIdle
    /\ UNCHANGED <<bank, dir, content, maximum_snapshots_to_retain, w, op, written>>

Restorer == BankFromSnapshotArchive \/ RestoreFinish

Next == Advance \/ Writer \/ Restorer

Spec == Init /\ [][Next]_vars

\* ------------------------------------------- purge on arbitrary directories
\* What an output directory may hold: full archives of the slots 1..MaxDirSlot
\* in all four formats, a second full archive of slot 2 with another hash,
\* incremental archives on a low and on a high base, the staging directory
\* and the temporary archive of a build in flight, a file whose hash is not
\* base58, and a directory named like a full archive.
HashA == [k \in Keys |-> 0]
HashB == [k \in Keys |-> IF k = "k1" THEN 1 ELSE 0]

FullEntry(slot, hash) == File(build_snapshot_archive_path(slot, hash, FormatOf(slot)))

IncrementalEntry(base_slot, slot) ==
    File(build_incremental_snapshot_archive_path(base_slot, slot, HashA, FormatOf(slot)))

TmpEntries ==
    {Directory(TMP_SNAPSHOT_PREFIX \o <<"1", "-", "x">>),
     File(TMP_SNAPSHOT_PREFIX \o <<"1", ".", "tar">>)}

BadHashEntry == File(<<"snapshot-", "1", "-", "O0Il", ".", "tar">>)

ArchiveNamedDirectory ==
    Directory(build_snapshot_archive_path(MaxDirSlot + 1, HashA, "Tar"))

DirCandidates ==
    {FullEntry(s, HashA) : s \in 1..MaxDirSlot}
        \cup {FullEntry(2, HashB)}
        \cup {IncrementalEntry(1, 2), IncrementalEntry(MaxDirSlot - 1, MaxDirSlot)}
        \cup TmpEntries
        \cup {BadHashEntry, ArchiveNamedDirectory}

InitDir ==
    /\ dir \in SUBSET DirCandidates
    /\ maximum_snapshots_to_retain \in 0..MaxRetain
    /\ bank = GenesisBank
    /\ content = << >>
    /\ w = WriterIdle
    /\ r = RestorerIdle
    /\ op = NoOp
    /\ written = << >>

\* purge_old_snapshot_archives on the directory as it is.
DirPurge ==
    /\ \E archives \in get_sorted_snapshot_archives(dir) :
          /\ dir' = purge_old_snapshot_archives(dir, maximum_snapshots_to_retain,
                                                archives, {})
          /\ op' = [name |-> "purge", before |-> dir, args |-> archives,
                    result |-> NoResult]
    /\ UNCHANGED <<bank, content, maximum_snapshots_to_retain, w, r, written>>

NextDir == DirPurge

SpecDir == InitDir /\ [][NextDir]_vars

\* ------------------------------------------------ compatibility of two paths
\* The paths a caller may hand over: the names of the candidates above and
\* a name whose slot does not fit 64 bits.
OverflowName == <<"snapshot-", OverflowDigits, "-">> \o HashStr(HashA) \o <<".", "tar">>

PathCandidates == Names(DirCandidates) \cup {OverflowName}

InitPaths ==
    /\ \E full \in PathCandidates, incremental \in PathCandidates :
          op = [name |-> "paths", before |-> {}, args |-> <<full, incremental>>,
                result |-> NoResult]
    /\ dir = {}
    /\ maximum_snapshots_to_retain = 0
    /\ bank = GenesisBank
    /\ content = << >>
    /\ w = WriterIdle
    /\ r = RestorerIdle
    /\ written = << >>

CheckCompatible ==
    /\ op.name = "paths"
    /\ op' = [op EXCEPT !.name = "compatible",
                        !.result = check_are_snapshots_compatible(op.args[1], op.args[2])]
    /\ UNCHANGED <<bank, dir, content, maximum_snapshots_to_retain, w, r, written>>

NextPaths == CheckCompatible

SpecPaths == InitPaths /\ [][NextPaths]_vars

\* ------------------------------------------------------- archive file names
\* Highest slot put into a built archive name.
MaxNameSlot == 10

\* One-digit and two-digit slots.
NameSlots == {0, MaxNameSlot - 1, MaxNameSlot}

NameHashes == {HashA, HashB, [k \in Keys |-> Len(HashLetters) - 1]}

\* What a name was built from (kind "full" or "incremental"), or kind
\* "malformed" for a name that was damaged after it was built.
NameInput(kind, base_slot, slot, hash, archive_format, name) ==
    [kind |-> kind, base_slot |-> base_slot, slot |-> slot, hash |-> hash,
     archive_format |-> archive_format, name |-> name]

BuiltFull ==
    {NameInput("full", None, Some(slot), Some(hash), Some(f),
               build_snapshot_archive_path(slot, hash, f)) :
        slot \in NameSlots, hash \in NameHashes, f \in ArchiveFormat}

BuiltIncremental ==
    {NameInput("incremental", Some(sl[1]), Some(sl[2]), Some(hash), Some(f),
               build_incremental_snapshot_archive_path(sl[1], sl[2], hash, f)) :
        sl \in NameSlots \X NameSlots, hash \in NameHashes, f \in ArchiveFormat}

\* Tokens that spoil the place they are put in: "!" is in no class of the
\* regexes, "O0Il" is alphanumeric but neither digits nor base58 nor an
\* extension, and the overflowing digits are no slot and no hash.
BadTokens == {"!", "O0Il", OverflowDigits}

Malformed(name) ==
    {[name EXCEPT ![i] = t] : i \in 1..Len(name), t \in BadTokens}
        \cup {<<"tmp-">> \o name, name \o <<".", "x">>,
              SubSeq(name, 1, Len(name) - 1), SubSeq(name, 2, Len(name))}

MalformedNames ==
    {NameInput("malformed", None, None, None, None, m) :
        m \in UNION {Malformed(b.name) : b \in BuiltFull \cup BuiltIncremental}}

InitNames ==
    /\ \E input \in BuiltFull \cup BuiltIncremental \cup MalformedNames :
          op = [name |-> "name", before |-> {}, args |-> <<input>>, result |-> NoResult]
    /\ dir = {}
    /\ maximum_snapshots_to_retain = 0
    /\ bank = GenesisBank
    /\ content = << >>
    /\ w = WriterIdle
    /\ r = RestorerIdle
    /\ written = << >>

\* Both parsers applied to the name, as the two directory scans do.
ParseName ==
    /\ op.name = "name"
    /\ op' = [op EXCEPT
                !.name = "parsed",
                !.result = Ok([full |-> parse_snapshot_archive_filename(op.args[1].name),
                               incremental |->
                                  parse_incremental_snapshot_archive_filename(
                                      op.args[1].name)])]
    /\ UNCHANGED <<bank, dir, content, maximum_snapshots_to_retain, w, r, written>>

NextNames == ParseName

SpecNames == InitNames /\ [][NextNames]_vars

\* ------------------------------------------------------- highest queries
\* Highest slot of a full archive in a directory that is queried.
MaxHighSlot == 3

\* Full archives (two of them at slot 2), incremental archives on the bases
\* 1, 2 and MaxHighSlot (two of them with base 1 and slot 3), a file named
\* as an incremental archive of a slot below its base, and a directory that
\* has the name of an incremental archive.
HighestCandidates ==
    {FullEntry(s, HashA) : s \in 1..MaxHighSlot}
        \cup {FullEntry(2, HashB)}
        \cup {IncrementalEntry(1, 2), IncrementalEntry(1, 3), IncrementalEntry(2, 3),
              IncrementalEntry(MaxHighSlot, MaxHighSlot + 1),
              IncrementalEntry(MaxHighSlot, 2)}
        \cup {File(build_incremental_snapshot_archive_path(1, 3, HashB, "Tar"))}
        \cup {Directory(build_incremental_snapshot_archive_path(
                            1, MaxHighSlot + 2, HashA, "Tar"))}

InitHighest ==
    /\ dir \in SUBSET HighestCandidates
    /\ maximum_snapshots_to_retain = 0
    /\ bank = GenesisBank
    /\ content = << >>
    /\ w = WriterIdle
    /\ r = RestorerIdle
    /\ op = NoOp
    /\ written = << >>

\* get_highest_snapshot_archive_slot(dir) and
\* get_highest_incremental_snapshot_archive_slot(dir, full_snapshot_slot):
\* the outcomes of each.
GetHighest ==
    /\ op.name = "none"
    /\ \E full_snapshot_slot \in 0..(MaxHighSlot + 1) :
          op' = [name |-> "highest", before |-> dir, args |-> <<full_snapshot_slot>>,
                 result |->
                    Ok([full |-> {SlotOf(info) :
                                    info \in get_highest_snapshot_archive_info(dir)},
                        incremental |->
                           get_highest_incremental_snapshot_archive_slot(
                               dir, full_snapshot_slot)])]
    /\ UNCHANGED <<bank, dir, content, maximum_snapshots_to_retain, w, r, written>>

NextHighest == GetHighest

SpecHighest == InitHighest /\ [][NextHighest]_vars

\* ------------------------------------------------------ capped data files
\* Most bytes a serializer writes, and the highest maximum_file_size.
MaxBytes == 3

Bytes(n) == [i \in 1..n |-> 0]

DataFilePaths == {<<"data-file">>, <<"incremental-data-file">>}

\* get_io_error(&error_message)
get_io_error(error_message) == Err("Io", error_message)

\* What a call did and what it returned.
Outcome_of(log, result) == [log |-> log, result |-> result]

\* The limit taken as exclusive.
SerializedSize_exclusive(consumed_size, maximum_file_size) ==
    IF consumed_size >= maximum_file_size
    THEN get_io_error("too large snapshot data file to serialize")
    ELSE Ok(consumed_size)

SerializedSize(consumed_size, maximum_file_size) ==
    IF consumed_size > maximum_file_size
    THEN get_io_error("too large snapshot data file to serialize")
    ELSE Ok(consumed_size)

\* A serializer is the bytes it writes and whether it returns Ok.  The file
\* holds these bytes once the stream is flushed.
serialize_snapshot_data_file_capped(maximum_file_size, serializer) ==
    IF ~serializer.ok
    THEN Outcome_of(<<"create", "serializer">>, Err("Serialize", << >>))
    ELSE Outcome_of(<<"create", "serializer", "flush", "seek">>,
                    SerializedSize(Len(serializer.bytes), maximum_file_size))

\* The consumption check left out.
Consumed_unchecked(log, file_size, consumed_size, ret) ==
    Outcome_of(log \o <<"seek">>, Ok(ret))

Consumed(log, file_size, consumed_size, ret) ==
    Outcome_of(log \o <<"seek">>,
               IF file_size # consumed_size
               THEN get_io_error("invalid snapshot data file")
               ELSE Ok(ret))

\* A deserializer is the number of bytes it reads and whether it returns
\* Ok; reading past the end of the file is an error of the deserializer.
\* The value it returns is the bytes it read.
Deserialized(log, file, deserializer) ==
    IF ~deserializer.ok \/ deserializer.consumes > Len(file)
    THEN Outcome_of(log, Err("Serialize", << >>))
    ELSE Consumed(log, Len(file), deserializer.consumes,
                  SubSeq(file, 1, deserializer.consumes))

\* The file opened and read before its size is looked at.
deserialize_snapshot_data_file_capped_late(disk, data_file_path, maximum_file_size, deserializer) ==
    IF data_file_path \notin DOMAIN disk
    THEN Outcome_of(<<"metadata">>, get_io_error("NotFound"))
    ELSE IF Len(disk[data_file_path]) > maximum_file_size
    THEN Outcome_of(<<"metadata", "open", "deserializer">>,
                    get_io_error("too large snapshot data file to deserialize"))
    ELSE Deserialized(<<"metadata", "open", "deserializer">>,
                      disk[data_file_path], deserializer)

deserialize_snapshot_data_file_capped(disk, data_file_path, maximum_file_size, deserializer) ==
    IF data_file_path \notin DOMAIN disk
    THEN Outcome_of(<<"metadata">>, get_io_error("NotFound"))
    ELSE IF Len(disk[data_file_path]) > maximum_file_size
    THEN Outcome_of(<<"metadata">>,
                    get_io_error("too large snapshot data file to deserialize"))
    ELSE Deserialized(<<"metadata", "open", "deserializer">>,
                      disk[data_file_path], deserializer)

\* Ok(file size) once the file has passed the size check and is open.
prepare_deserialize_snapshot_data_file(disk, snapshot_root_file_path, maximum_file_size) ==
    IF snapshot_root_file_path \notin DOMAIN disk
    THEN get_io_error("NotFound")
    ELSE IF Len(disk[snapshot_root_file_path]) > maximum_file_size
    THEN get_io_error("too large snapshot data file to deserialize")
    ELSE Ok(Len(disk[snapshot_root_file_path]))

check_deserialize_snapshot_data_file(file_size, consumed_size) ==
    IF consumed_size # file_size
    THEN get_io_error("invalid snapshot data file")
    ELSE Ok(<< >>)

\* The two checks after the deserializer returned `ret`; incremental_check
\* is None when there is no incremental stream.
StreamsChecked(log, full_check, incremental_check, ret) ==
    IF full_check.tag # "Ok" THEN Outcome_of(log \o <<"check_full">>, full_check)
    ELSE IF ~IsSome(incremental_check) THEN Outcome_of(log \o <<"check_full">>, Ok(ret))
    ELSE IF Unwrap(incremental_check).tag # "Ok"
    THEN Outcome_of(log \o <<"check_full", "check_incremental">>,
                    Unwrap(incremental_check))
    ELSE Outcome_of(log \o <<"check_full", "check_incremental">>, Ok(ret))

StreamsDeserialized(log, disk, paths, deserializer, full_size, incremental_size) ==
    IF \/ ~deserializer.ok
       \/ deserializer.consumes > full_size
       \/ IsSome(incremental_size)
            /\ deserializer.incremental_consumes > Unwrap(incremental_size)
    THEN Outcome_of(log, Err("Serialize", << >>))
    ELSE StreamsChecked(
             log,
             check_deserialize_snapshot_data_file(full_size, deserializer.consumes),
             IF IsSome(incremental_size)
             THEN Some(check_deserialize_snapshot_data_file(
                           Unwrap(incremental_size), deserializer.incremental_consumes))
             ELSE None,
             [full |-> SubSeq(disk[paths.full], 1, deserializer.consumes),
              incremental |->
                 IF IsSome(incremental_size)
                 THEN Some(SubSeq(disk[Unwrap(paths.incremental)], 1,
                                  deserializer.incremental_consumes))
                 ELSE None])

IncrementalPrepared(disk, paths, deserializer, full_size, incremental) ==
    IF incremental.tag # "Ok"
    THEN Outcome_of(<<"metadata_full", "open_full", "metadata_incremental">>, incremental)
    ELSE StreamsDeserialized(
             <<"metadata_full", "open_full", "metadata_incremental", "open_incremental",
               "deserializer">>,
             disk, paths, deserializer, full_size, Some(incremental.val))

FullPrepared(disk, paths, maximum_file_size, deserializer, full) ==
    IF full.tag # "Ok" THEN Outcome_of(<<"metadata_full">>, full)
    ELSE IF IsSome(paths.incremental)
    THEN IncrementalPrepared(
             disk, paths, deserializer, full.val,
             prepare_deserialize_snapshot_data_file(disk, Unwrap(paths.incremental),
                                                    maximum_file_size))
    ELSE StreamsDeserialized(<<"metadata_full", "open_full", "deserializer">>,
                             disk, paths, deserializer, full.val, None)

deserialize_snapshot_data_files_capped(disk, snapshot_root_paths, maximum_file_size, deserializer) ==
    FullPrepared(disk, snapshot_root_paths, maximum_file_size, deserializer,
                 prepare_deserialize_snapshot_data_file(disk, snapshot_root_paths.full,
                                                        maximum_file_size))

InitCapped ==
    /\ content = << >>
    /\ op = NoOp
    /\ dir = {}
    /\ maximum_snapshots_to_retain = 0
    /\ bank = GenesisBank
    /\ w = WriterIdle
    /\ r = RestorerIdle
    /\ written = << >>

\* The call recorded: its arguments, what it did, what it returned.
Called(name, args, outcome) ==
    [name |-> name, before |-> {}, args |-> args \o <<outcome.log>>,
     result |-> outcome.result]

Serializers == [bytes : {Bytes(n) : n \in 0..MaxBytes}, ok : BOOLEAN]

Deserializers == [consumes : 0..MaxBytes, incremental_consumes : 0..MaxBytes, ok : BOOLEAN]

SerializeDataFile ==
    /\ \E data_file_path \in DataFilePaths, maximum_file_size \in 0..MaxBytes,
          serializer \in Serializers :
          /\ content' = [f \in DOMAIN content \cup {data_file_path} |->
                            IF f = data_file_path THEN serializer.bytes ELSE content[f]]
          /\ op' = Called("serialize", <<data_file_path, maximum_file_size, serializer>>,
                          serialize_snapshot_data_file_capped(maximum_file_size,
                                                              serializer))
    /\ UNCHANGED <<bank, dir, maximum_snapshots_to_retain, w, r, written>>

DeserializeDataFile ==
    /\ \E data_file_path \in DataFilePaths, maximum_file_size \in 0..MaxBytes,
          deserializer \in {d \in Deserializers : d.incremental_consumes = 0} :
          op' = Called("deserialize", <<data_file_path, maximum_file_size, deserializer>>,
                       deserialize_snapshot_data_file_capped(
                           content, data_file_path, maximum_file_size, deserializer))
    /\ UNCHANGED <<bank, dir, content, maximum_snapshots_to_retain, w, r, written>>

DeserializeDataFiles ==
    /\ \E incremental \in {None, Some(<<"incremental-data-file">>)},
          maximum_file_size \in 0..MaxBytes, deserializer \in Deserializers :
          /\ IsSome(incremental) \/ deserializer.incremental_consumes = 0
          /\ op' = Called("deserialize_files",
                          <<[full |-> <<"data-file">>, incremental |-> incremental],
                            maximum_file_size, deserializer>>,
                          deserialize_snapshot_data_files_capped(
                              content,
                              [full |-> <<"data-file">>, incremental |-> incremental],
                              maximum_file_size, deserializer))
    /\ UNCHANGED <<bank, dir, content, maximum_snapshots_to_retain, w, r, written>>

NextCapped == SerializeDataFile \/ DeserializeDataFile \/ DeserializeDataFiles

SpecCapped == InitCapped /\ [][NextCapped]_vars

\* ------------------------------------------------ incremental packages
\* Highest slot of a storage entry handed to package_incremental_snapshot.
MaxStorageSlot == 3

StorageEntries == [slot : 0..MaxStorageSlot, id : {0, 1}, key : {"k1"}, val : {1}]

IncrementalTmpDirName(base_slot, slot) ==
    TMP_INCREMENTAL_SNAPSHOT_PREFIX \o DecStr(base_slot) \o <<"-">> \o DecStr(slot)
        \o <<"-", "x">>

\* do_package_snapshot: the snapshot file hard-linked into the tmpdir, the
\* package made.
do_package_snapshot(log, b, snapshot_storages, snapshot_tmpdir) ==
    Outcome_of(log \o <<"create_dir_all", "hard_link">>,
               Ok([slot |-> b.slot, storages |-> snapshot_storages,
                   snapshot_links |-> snapshot_tmpdir, hash |-> b.hash]))

\* The assertion letting a storage entry of the base slot itself through.
package_incremental_snapshot_weak(b, incremental_snapshot_base_slot, snapshot_storages, tempdir_ok) ==
    IF ~(\A entry \in snapshot_storages : entry.slot >= incremental_snapshot_base_slot)
    THEN Outcome_of(<<"assert">>, Panic)
    ELSE IF ~tempdir_ok THEN Outcome_of(<<"assert", "tempdir">>, Err("Io", << >>))
    ELSE do_package_snapshot(<<"assert", "tempdir">>, b, snapshot_storages,
                             IncrementalTmpDirName(incremental_snapshot_base_slot,
                                                   b.slot))

package_incremental_snapshot(b, incremental_snapshot_base_slot, snapshot_storages, tempdir_ok) ==
    IF ~(\A entry \in snapshot_storages : entry.slot > incremental_snapshot_base_slot)
    THEN Outcome_of(<<"assert">>, Panic)
    ELSE IF ~tempdir_ok THEN Outcome_of(<<"assert", "tempdir">>, Err("Io", << >>))
    ELSE do_package_snapshot(<<"assert", "tempdir">>, b, snapshot_storages,
                             IncrementalTmpDirName(incremental_snapshot_base_slot,
                                                   b.slot))

InitPackage ==
    /\ bank = GenesisBank
    /\ op = NoOp
    /\ dir = {}
    /\ content = << >>
    /\ maximum_snapshots_to_retain = 0
    /\ w = WriterIdle
    /\ r = RestorerIdle
    /\ written = << >>

PackageIncrementalSnapshot ==
    /\ op.name = "none"
    /\ \E incremental_snapshot_base_slot \in 0..MaxStorageSlot,
          snapshot_storages \in SUBSET StorageEntries, tempdir_ok \in BOOLEAN :
          op' = Called("package_incremental",
                       <<incremental_snapshot_base_slot, snapshot_storages>>,
                       package_incremental_snapshot(
                           bank, incremental_snapshot_base_slot, snapshot_storages,
                           tempdir_ok))
    /\ UNCHANGED <<bank, dir, content, maximum_snapshots_to_retain, w, r, written>>

NextPackage == PackageIncrementalSnapshot

SpecPackage == InitPackage /\ [][NextPackage]_vars

\* ------------------------------------------------ publishing an archive
\* Highest slot of a full archive found in the directory an archive is
\* published into.
MaxPubSlot == 3

\* What the directory held before the call.
PublishCandidates ==
    {FullEntry(s, HashA) : s \in 1..MaxPubSlot}
        \cup {IncrementalEntry(1, 2), IncrementalEntry(MaxPubSlot - 1, MaxPubSlot)}

\* A bank of the given slot.
BankAt(slot) == [GenesisBank EXCEPT !.slot = slot]

\* The packages published: full ones and incremental ones on a lower base.
PublishPackages ==
    {AccountsPackage(BankAt(slot), get_snapshot_storages(BankAt(slot)), None) :
        slot \in 1..(MaxPubSlot + 1)}
      \cup
    {AccountsPackage(BankAt(sl[2]), {}, Some(sl[1])) :
        sl \in {x \in (1..MaxPubSlot) \X (1..(MaxPubSlot + 1)) : x[1] < x[2]}}

\* archive_snapshot_package has renamed the temporary archive of a package
\* to its public name.
Renamed(prior, package) ==
    /\ dir = prior \cup {Directory(StagingDirName(package)),
                         File(package.tar_output_file)}
    /\ content = [f \in {package.tar_output_file} |-> TarContent(package)]
    /\ w = [pc |-> "renamed", package |-> Some(package), tar_ok |-> TRUE,
            log |-> <<"serialize_status_cache", "create_staging_dir",
                      "symlink_snapshots">>
                    \o StorageEvents(Cardinality(package.storages))
                    \o <<"write_version", "tar_spawn", "create_tmp_archive", "copy",
                         "finish", "tar_wait", "rename">>,
            tar_exit_status |-> Some(0), before |-> prior, result |-> NoResult]

InitPublish ==
    /\ \E prior \in SUBSET PublishCandidates, package \in PublishPackages :
          Renamed(prior, package)
    /\ maximum_snapshots_to_retain \in 0..MaxRetain
    /\ bank = GenesisBank
    /\ r = RestorerIdle
    /\ op = NoOp
    /\ written = << >>

\* The files whose removal fails: none, one of them, or all.
Undeletables(d) == {{}, Names(d)} \cup {{e.name} : e \in d}

\* purge_old_snapshot_archives with fs::remove_file failing on some files.
PurgeBestEffort ==
    /\ w.pc = "renamed"
    /\ \E archives \in get_sorted_snapshot_archives(dir), undeletable \in Undeletables(dir) :
          /\ dir' = purge_old_snapshot_archives(dir, maximum_snapshots_to_retain,
                                                archives, undeletable)
          /\ op' = [name |-> "purge", before |-> dir, args |-> <<archives, undeletable>>,
                    result |-> NoResult]
    /\ content' = Restrict(content, DOMAIN content \cap Names(dir'))
    /\ w' = [w EXCEPT !.pc = "purged", !.log = @ \o <<"purge">>]
    /\ UNCHANGED <<bank, maximum_snapshots_to_retain, r, written>>

NextPublish == PurgeBestEffort \/ ReturnOk \/ Finish

SpecPublish == InitPublish /\ [][NextPublish]_vars

\* ------------------------------------------------ cleanup after a crash
\* What an interrupted build can leave in a directory: the temporary
\* directory of a full package or the staging directory, temporary archive
\* files, the temporary directory of an incremental package; next to them
\* published archives and entries of other names.
IncrementalTmpDir(base_slot, slot) ==
    Directory(TMP_INCREMENTAL_SNAPSHOT_PREFIX \o DecStr(base_slot) \o <<"-">>
                  \o DecStr(slot) \o <<"-", "x">>)

OtherEntries == {File(<<"x">>), Directory(<<"x", "-", "snapshot-">>)}

CleanupCandidates ==
    TmpEntries
        \cup {File(TMP_SNAPSHOT_PREFIX \o <<"2", ".", "tar", ".", "zst">>)}
        \cup {IncrementalTmpDir(1, 2)}
        \cup {FullEntry(1, HashA), IncrementalEntry(1, 2)}
        \cup OtherEntries

\* Every entry whose name starts with TMP_SNAPSHOT_PREFIX is removed, a file
\* by remove_file and anything else by remove_dir_all; a removal that fails
\* is logged and the entry stays.
remove_tmp_snapshot_archives(d, undeletable) ==
    {e \in d : ~starts_with(e.name, TMP_SNAPSHOT_PREFIX) \/ e.name \in undeletable}

InitCleanup ==
    /\ dir \in SUBSET CleanupCandidates
    /\ maximum_snapshots_to_retain = 0
    /\ bank = GenesisBank
    /\ content = << >>
    /\ w = WriterIdle
    /\ r = RestorerIdle
    /\ op = NoOp
    /\ written = << >>

RemoveTmpSnapshotArchives ==
    /\ op.name = "none"
    /\ \E undeletable \in Undeletables(dir) :
          /\ dir' = remove_tmp_snapshot_archives(dir, undeletable)
          /\ op' = [name |-> "remove_tmp", before |-> dir, args |-> <<undeletable>>,
                    result |-> NoResult]
    /\ UNCHANGED <<bank, content, maximum_snapshots_to_retain, w, r, written>>

NextCleanup == RemoveTmpSnapshotArchives

SpecCleanup == InitCleanup /\ [][NextCleanup]_vars

\* ------------------------------------------------ unpacking in parallel
\* Most entries of an archive handed to unpack_snapshot_local.
MaxEntries == 3
\* Highest number of parallel archivers.
MaxWorkers == 3

\* The entries of an archive, by the parts of their paths.
EntryNames ==
    {<<"accounts", "1.0">>, <<"accounts", "2.0">>, <<"snapshots", "1">>, <<"version">>}

\* An archive is the sequence of its entries, each path once.
UnpackArchives ==
    {a \in UNION {[1..n -> EntryNames] : n \in 0..MaxEntries} :
        \A i, j \in DOMAIN a : a[i] = a[j] => i = j}

\* Every archiver handed the selector of the first one.
ParallelSelector_first(index, divisions) == [index |-> 0, divisions |-> divisions]

ParallelSelector(index, divisions) == [index |-> index, divisions |-> divisions]

\* The entries are partitioned by their index in the archive.
select_index(parallel_selector, index) ==
    index % parallel_selector.divisions = parallel_selector.index

Selected(archive, parallel_selector) ==
    {k \in DOMAIN archive : select_index(parallel_selector, k - 1)}

\* The append vecs among the entries at the positions given, each mapped to
\* the place it was extracted to.
AppendVecMapOf(archive, positions) ==
    [file \in {archive[k][2] : k \in {j \in positions : archive[j][1] = "accounts"}} |->
        <<"accounts", file>>]

\* One archiver walks the archive and extracts the entries its selector
\* picks; it stops with an error at the first of them that cannot be
\* extracted (those at the positions in `faults`).
unpack_snapshot(archive, parallel_selector, faults) ==
    IF Selected(archive, parallel_selector) \cap faults = {}
    THEN [selector |-> parallel_selector,
          extracted |-> {archive[k] : k \in Selected(archive, parallel_selector)},
          result |-> Ok(AppendVecMapOf(archive, Selected(archive, parallel_selector)))]
    ELSE [selector |-> parallel_selector,
          extracted |-> {archive[k] : k \in
                            {j \in Selected(archive, parallel_selector) :
                                \A b \in Selected(archive, parallel_selector) \cap faults :
                                    j < b}},
          result |-> Err("UnpackError", << >>)]

\* readers.into_par_iter().enumerate().map(..).collect(): archiver number
\* index + 1 of the list works under the selector (index, parallel_archivers).
Archivers(archive, parallel_archivers, faults) ==
    [i \in 1..parallel_archivers |->
        unpack_snapshot(archive, ParallelSelector(i - 1, parallel_archivers), faults)]

\* for h in all_unpacked_append_vec_map { unpacked_append_vec_map.extend(h?) }
RECURSIVE ExtendAll(_, _, _)
ExtendAll(all_unpacked_append_vec_map, i, unpacked_append_vec_map) ==
    IF i > Len(all_unpacked_append_vec_map) THEN Ok(unpacked_append_vec_map)
    ELSE IF all_unpacked_append_vec_map[i].result.tag # "Ok"
         THEN all_unpacked_append_vec_map[i].result
         ELSE ExtendAll(all_unpacked_append_vec_map, i + 1,
                        Extend(unpacked_append_vec_map,
                               all_unpacked_append_vec_map[i].result.val))

unpack_snapshot_local(archive, parallel_archivers, faults) ==
    ExtendAll(Archivers(archive, parallel_archivers, faults), 1, << >>)

InitUnpack ==
    /\ dir = {}
    /\ maximum_snapshots_to_retain = 0
    /\ bank = GenesisBank
    /\ content = << >>
    /\ w = WriterIdle
    /\ r = RestorerIdle
    /\ op = NoOp
    /\ written = << >>

UnpackSnapshotLocal ==
    /\ op.name = "none"
    /\ \E archive \in UnpackArchives, parallel_archivers \in 1..MaxWorkers :
          \E faults \in SUBSET DOMAIN archive :
              op' = [name |-> "unpack", before |-> {},
                     args |-> <<archive, parallel_archivers, faults,
                                Archivers(archive, parallel_archivers, faults)>>,
                     result |-> unpack_snapshot_local(archive, parallel_archivers, faults)]
    /\ UNCHANGED <<bank, dir, content, maximum_snapshots_to_retain, w, r, written>>

NextUnpack == UnpackSnapshotLocal

SpecUnpack == InitUnpack /\ [][NextUnpack]_vars

\* ------------------------------------------------ merging append vec maps
\* Most append vecs an unpacked archive lists.
MaxAppendVecs == 3
\* The places an append vec may have been extracted to.
MaxPlaces == 2

AppendVecFiles == {<<s, 0>> : s \in 1..MaxAppendVecs}

AppendVecMaps ==
    UNION {[files -> 1..MaxPlaces] : files \in SUBSET AppendVecFiles}

InitMerge ==
    /\ dir = {}
    /\ maximum_snapshots_to_retain = 0
    /\ bank = GenesisBank
    /\ content = << >>
    /\ w = WriterIdle
    /\ r = RestorerIdle
    /\ op = NoOp
    /\ written = << >>

\* The merge do_bank_from_snapshot_archives makes of the maps of the archives
\* it unpacked.
MergeAppendVecMaps ==
    /\ op.name = "none"
    /\ \E full \in AppendVecMaps, incremental \in {None} \cup {Some(m) : m \in AppendVecMaps} :
          op' = [name |-> "merge", before |-> {}, args |-> <<full, incremental>>,
                 result |-> Ok(MergedAppendVecMap(full, incremental))]
    /\ UNCHANGED <<bank, dir, content, maximum_snapshots_to_retain, w, r, written>>

NextMerge == MergeAppendVecMaps

SpecMerge == InitMerge /\ [][NextMerge]_vars

\* ------------------------------------------------ rebuilding from unpacked trees
\* The version files an unpacked archive may carry: the supported version,
\* bare or with a leading v, an older version and an empty file.
RebuildVersions ==
    {VERSION_STRING_V1_2_0, <<"v">> \o VERSION_STRING_V1_2_0,
     <<"1", ".", "1", ".", "0">>, << >>}

FullBanks == {BankAt(1), [BankAt(1) EXCEPT !.slot_deltas = {0, 1}]}

LaterBank == NewFromParent(BankAt(1), Some(<<"k1", 2>>))

\* What unpacking gave: the tree of a package, its version file and its
\* snapshots directory (None: no snapshot in it) as found.
UnpackedTrees(package) ==
    {[TarContent(package) EXCEPT !.version = v, !.snapshots = sn] :
        v \in RebuildVersions, sn \in {None, Some(package.snapshot_links)}}

UnpackedFulls ==
    UNION {UnpackedTrees(AccountsPackage(b, get_snapshot_storages(b), None)) :
              b \in FullBanks}

UnpackedIncrementals ==
    UnpackedTrees(AccountsPackage(LaterBank,
                                  get_incremental_snapshot_storages(LaterBank, 1),
                                  Some(1)))

InitRebuild ==
    /\ dir = {}
    /\ maximum_snapshots_to_retain = 0
    /\ bank = GenesisBank
    /\ content = << >>
    /\ w = WriterIdle
    /\ r = RestorerIdle
    /\ op = NoOp
    /\ written = << >>

RebuildCalled(full, incremental, limit, rebuilt) ==
    op' = [name |-> "rebuild", before |-> {},
           args |-> <<full, incremental, limit, rebuilt.steps>>,
           result |-> rebuilt.result]

\* rebuild_bank_from_snapshots on the trees of a full archive and of an
\* incremental archive, or of a full archive alone.
RebuildBankFromSnapshots ==
    /\ op.name = "none"
    /\ \E full \in UnpackedFulls,
          incremental \in {None} \cup {Some(t) : t \in UnpackedIncrementals},
          limit \in {None, Some(1)} :
          RebuildCalled(full, incremental, limit,
                        rebuild_bank_from_snapshots(
                            full, incremental,
                            MergedAppendVecMap(
                                full.accounts,
                                IF IsSome(incremental)
                                THEN Some(Unwrap(incremental).accounts) ELSE None),
                            limit))
    /\ UNCHANGED <<bank, dir, content, maximum_snapshots_to_retain, w, r, written>>

NextRebuild == RebuildBankFromSnapshots

SpecRebuild == InitRebuild /\ [][NextRebuild]_vars

\* ------------------------------------------------------------ the properties
ParsesAsFull(name) == IsSome(parse_snapshot_archive_filename(name))
ParsesAsIncremental(name) == IsSome(parse_incremental_snapshot_archive_filename(name))

ExpectedCompatible(full, incr) ==
    IF full.slot = incr.base_slot THEN Ok(<<full.slot, incr.slot>>)
    ELSE Err("IncompatibleSnapshots", <<full.slot, incr.base_slot>>)

\* C9: check_are_snapshots_compatible returns Ok((full slot, incremental
\* slot)) if and only if both file names parse and the incremental's base
\* slot is the full archive's slot; when both parse and the slots differ it
\* returns IncompatibleSnapshots(full slot, incremental base slot); when
\* either name does not parse it returns PathParseError.  The names built
\* for known slots give the result those slots call for.
C9_CheckCompatible ==
    op.name = "compatible" =>
        /\ (op.result.tag = "Ok") <=>
              /\ ParsesAsFull(op.args[1])
              /\ ParsesAsIncremental(op.args[2])
              /\ Unwrap(parse_snapshot_archive_filename(op.args[1])).slot =
                 Unwrap(parse_incremental_snapshot_archive_filename(op.args[2])).base_slot
        /\ (ParsesAsFull(op.args[1]) /\ ParsesAsIncremental(op.args[2])) =>
              op.result = ExpectedCompatible(
                              Unwrap(parse_snapshot_archive_filename(op.args[1])),
                              Unwrap(parse_incremental_snapshot_archive_filename(op.args[2])))
        /\ (~ParsesAsFull(op.args[1]) \/ ~ParsesAsIncremental(op.args[2])) =>
              op.result = Err("PathParseError", << >>)
        /\ \A s \in 1..MaxDirSlot, h \in {HashA, HashB},
              b \in 1..MaxDirSlot, t \in 1..MaxDirSlot :
              (op.args[1] = FullEntry(s, h).name /\ op.args[2] = IncrementalEntry(b, t).name)
                  => op.result = ExpectedCompatible([slot |-> s],
                                                    [base_slot |-> b, slot |-> t])

\* A full archive of slot 1 checked against an incremental archive on base
\* MaxDirSlot - 1: the mismatch error with these two slots.
C9_Witness ==
    /\ op.name = "compatible"
    /\ op.args = <<FullEntry(1, HashA).name, IncrementalEntry(MaxDirSlot - 1, MaxDirSlot).name>>
    /\ op.result = Err("IncompatibleSnapshots", <<1, MaxDirSlot - 1>>)

MatchesGrammar(name) ==
    \/ IsSome(SNAPSHOT_ARCHIVE_FILENAME_REGEX(name))
    \/ IsSome(INCREMENTAL_SNAPSHOT_ARCHIVE_FILENAME_REGEX(name))

\* C5: purge_old_snapshot_archives deletes no entry whose name carries the
\* temporary prefix and no entry whose name does not match the full or the
\* incremental archive grammar: each such entry present before the purge is
\* present after it.
C5_PurgeKeepsOthers ==
    op.name = "purge" =>
        \A e \in op.before :
            (starts_with(e.name, TMP_SNAPSHOT_PREFIX) \/ ~MatchesGrammar(e.name))
                => e \in dir

\* A purge that deleted archives from a directory that held the staging
\* directory and the temporary archive of a build in flight.
C5_Witness ==
    /\ op.name = "purge"
    /\ dir # op.before
    /\ TmpEntries \subseteq op.before
    /\ TmpEntries \subseteq dir

FullSlots(d) == {a.slot : a \in get_snapshot_archives(d)}
FullPaths(d) == {a.path : a \in get_snapshot_archives(d)}
IncrementalPaths(d) == {a.path : a \in get_incremental_snapshot_archives(d)}

DistinctSlots(d) == Cardinality(get_snapshot_archives(d)) = Cardinality(FullSlots(d))

MinOf(S) == CHOOSE s \in S : \A o \in S : s <= o

\* The m highest members of S (all of S when it has fewer).
Highest(S, m) == {s \in S : Cardinality({t \in S : t > s}) < m}

\* The slots the retention rule keeps: the lowest, and the max(1, n) highest
\* of the others.
RetainedSlots(S, n) ==
    IF S = {} THEN {}
    ELSE {MinOf(S)} \cup Highest(S \ {MinOf(S)}, IF n < 1 THEN 1 ELSE n)

\* C6: for a directory holding k full archives of distinct slots and any
\* retention n, the full archives left by purge_old_snapshot_archives are
\* exactly the one of the lowest slot and the min(k - 1, max(1, n)) of the
\* highest slots among the others; n = 0 retains what n = 1 retains.
C6_FullRetention ==
    (op.name = "purge" /\ DistinctSlots(op.before)) =>
        /\ FullPaths(dir) =
              {a.path : a \in {x \in get_snapshot_archives(op.before) :
                  x.slot \in RetainedSlots(FullSlots(op.before),
                                           maximum_snapshots_to_retain)}}
        /\ FullSlots(op.before) # {} =>
              Cardinality(FullSlots(dir)) =
                 1 + (IF Cardinality(FullSlots(op.before)) - 1
                          < (IF maximum_snapshots_to_retain < 1 THEN 1
                             ELSE maximum_snapshots_to_retain)
                      THEN Cardinality(FullSlots(op.before)) - 1
                      ELSE (IF maximum_snapshots_to_retain < 1 THEN 1
                            ELSE maximum_snapshots_to_retain))
        /\ maximum_snapshots_to_retain = 0 =>
              FullSlots(dir) = RetainedSlots(FullSlots(op.before), 1)

\* Full archives of all the slots purged with a retention of zero: the
\* lowest and the highest are left.
C6_Witness ==
    /\ op.name = "purge"
    /\ DistinctSlots(op.before)
    /\ FullSlots(op.before) = 1..MaxDirSlot
    /\ maximum_snapshots_to_retain = 0
    /\ FullSlots(dir) = {1, MaxDirSlot}

\* C7: after purge_old_snapshot_archives the incremental archives left are
\* exactly those whose base slot is the slot of the highest full archive;
\* every other one (base lower or higher, and every one when there is no
\* full archive) is deleted.
C7_IncrementalRetention ==
    op.name = "purge" =>
        IncrementalPaths(dir) =
            {a.path : a \in {x \in get_incremental_snapshot_archives(op.before) :
                Some(x.base_slot) = get_highest_snapshot_archive_slot(dir)}}

\* The files of a directory whose names match the archive grammar: what a
\* scan of the directory may return.
ArchiveFiles(d) == {e \in d : e.kind = "file" /\ MatchesGrammar(e.name)}

InFlight == w.pc \in {"staging", "staged", "spawned", "copied", "waited"}

SamePackage(name, package) ==
    IF IsSome(package.base)
    THEN /\ ParsesAsIncremental(name)
         /\ Unwrap(parse_incremental_snapshot_archive_filename(name)).slot = package.slot
         /\ Unwrap(parse_incremental_snapshot_archive_filename(name)).base_slot
               = Unwrap(package.base)
    ELSE /\ ParsesAsFull(name)
         /\ Unwrap(parse_snapshot_archive_filename(name)).slot = package.slot

\* Every archive a scan returns is complete, and while a package is being
\* written no archive of that package is in the directory.
NoPartialArchive ==
    /\ \A e \in ArchiveFiles(dir) :
          /\ e.name \in DOMAIN content
          /\ content[e.name].complete
          /\ IsSome(content[e.name].of)
    /\ InFlight =>
          /\ File(Unwrap(w.package).tar_output_file) \notin dir
          /\ \A e \in ArchiveFiles(dir) : ~SamePackage(e.name, Unwrap(w.package))

\* A file matching the grammar appears only in the rename step, under the
\* package's public name, after tar has exited successfully and the
\* compressor has finished.
AppearsByRename ==
    \A e \in ArchiveFiles(dir' \ dir) :
        /\ w.pc = "waited" /\ w'.pc = "renamed"
        /\ w.tar_ok
        /\ e.name = Unwrap(w.package).tar_output_file
        /\ SubSeq(w'.log, Len(w'.log) - 3, Len(w'.log))
              = <<"copy", "finish", "tar_wait", "rename">>
        /\ content[TmpArchivePath(Unwrap(w.package))].complete

\* C3: at every intermediate point of archive_snapshot_package no file
\* matching the full or incremental archive grammar exists for the package
\* being written; the public name appears only through the rename step,
\* which comes after tar has exited successfully and the compressor has
\* finished, so a directory scan never returns a partially written archive.
C3_AtomicVisibility == []NoPartialArchive /\ [][AppearsByRename]_vars

\* The temporary archive is complete and waits for the rename while another
\* archive is already in the directory.
C3_Witness ==
    /\ w.pc = "waited"
    /\ File(TmpArchivePath(Unwrap(w.package))) \in dir
    /\ ArchiveFiles(dir) # {}

Occurrences(log, event) == {i \in 1..Len(log) : log[i] = event}

\* The purge comes right after the rename, at most once, once in a call that
\* returned Ok and never in a call that returned an error.
PurgeAfterRename ==
    /\ \A i \in Occurrences(w.log, "purge") : i > 1 /\ w.log[i - 1] = "rename"
    /\ Cardinality(Occurrences(w.log, "purge")) <= 1
    /\ (w.pc = "done" /\ w.result.tag = "Ok") =>
          Cardinality(Occurrences(w.log, "purge")) = 1
    /\ (w.pc = "done" /\ w.result.tag # "Ok") => Occurrences(w.log, "purge") = {}

\* Archives leave the directory only in the step that follows the rename.
DeletesAfterRename ==
    (ArchiveFiles(dir \ dir') # {}) =>
        /\ w.pc = "renamed" /\ w'.pc = "purged"
        /\ w'.log = w.log \o <<"purge">>

\* C4: within one archive_snapshot_package call purge_old_snapshot_archives
\* is invoked only after the rename of the temporary archive to its public
\* name has succeeded, exactly once per successful call, and never in a call
\* that returns an error.
C4_PurgeOnlyAfterRename == []PurgeAfterRename /\ [][DeletesAfterRename]_vars

\* A call that returned Ok after its purge deleted an older full archive.
C4_Witness ==
    /\ w.pc = "done"
    /\ w.result.tag = "Ok"
    /\ Occurrences(w.log, "purge") # {}
    /\ \E i \in 1..Len(written) : written[i] \notin FullPaths(dir)

C1_FullRoundTrip ==
    (/\ r.pc = "done" /\ r.intact
     /\ ~IsSome(r.incremental) /\ ~IsSome(r.limit)
     /\ \E i \in 1..Len(written) : written[i] = r.full)
        => r.result = Ok(Unwrap(content[r.full].of))

\* A bank with several storages and a status cache came back from its
\* full archive.
C1_Witness ==
    /\ r.pc = "done" /\ r.intact
    /\ ~IsSome(r.incremental) /\ ~IsSome(r.limit)
    /\ \E i \in 1..Len(written) : written[i] = r.full
    /\ r.result.tag = "Ok"
    /\ Cardinality(r.result.val.storages) >= 2
    /\ Cardinality(r.result.val.slot_deltas) >= 2

\* The restorer was given a full archive of a bank at slot B and an
\* incremental archive, on base B, of a later bank.
IncrementalPair ==
    /\ r.pc = "done" /\ r.intact
    /\ IsSome(r.incremental) /\ ~IsSome(r.limit)
    /\ \E i \in 1..Len(written) : written[i] = r.full
    /\ ParsesAsIncremental(Unwrap(r.incremental))
    /\ content[Unwrap(r.incremental)].base = Some(Unwrap(content[r.full].of).slot)
    /\ Unwrap(content[Unwrap(r.incremental)].of).slot > Unwrap(content[r.full].of).slot

\* C2: given a full archive of a bank at slot B and an incremental archive
\* with base slot B of a later bank (slot above B, only some storages
\* touched since B), bank_from_incremental_snapshot_archive on the two
\* yields a bank equal to the later one.
C2_IncrementalRoundTrip ==
    IncrementalPair => r.result = Ok(Unwrap(content[Unwrap(r.incremental)].of))

\* The later bank came back, and the incremental archive holds some but not
\* all of its storages.
C2_Witness ==
    /\ IncrementalPair
    /\ r.result.tag = "Ok"
    /\ DOMAIN content[Unwrap(r.incremental)].accounts # {}
    /\ Cardinality(DOMAIN content[Unwrap(r.incremental)].accounts)
          < Cardinality(r.result.val.storages)

\* C10: a restore never returns a bank that failed the verification after
\* the load: when verify_snapshot_bank fails on the rebuilt bank the restore
\* panics instead of returning Ok, unless the load was bounded
\* (limit_load_slot_count_from_snapshot set).
C10_VerifiedOrPanic ==
    r.pc = "done" =>
        /\ (r.result.tag = "Ok" /\ ~IsSome(r.limit)) =>
              /\ r.verified = Some(TRUE)
              /\ verify_snapshot_bank(r.result.val)
        /\ (r.verified = Some(FALSE) /\ ~IsSome(r.limit)) => r.result = Panic
        /\ (r.verified = Some(FALSE) /\ IsSome(r.limit)) => r.result.tag = "Ok"

\* A corrupted archive was loaded without a limit and the restore panicked.
C10_Witness ==
    /\ r.pc = "done"
    /\ ~r.intact
    /\ ~IsSome(r.limit)
    /\ r.verified = Some(FALSE)
    /\ r.result = Panic

\* The archives a directory scan finds: full and incremental.
Discoverable(d) ==
    [full |-> get_snapshot_archives(d), incremental |-> get_incremental_snapshot_archives(d)]

\* C11: when the tar step exits with a non-zero status,
\* archive_snapshot_package returns ArchiveGenerationFailure carrying that
\* status, has spawned tar once (no retry), has neither renamed nor purged,
\* and the directory holds the same discoverable full and incremental
\* archives as before the call.
C11_TarFailure ==
    (IsSome(w.tar_exit_status) /\ Unwrap(w.tar_exit_status) # 0) =>
        /\ w.pc = "done"
        /\ w.result = Err("ArchiveGenerationFailure", Unwrap(w.tar_exit_status))
        /\ Cardinality(Occurrences(w.log, "tar_spawn")) = 1
        /\ Occurrences(w.log, "rename") = {}
        /\ Occurrences(w.log, "purge") = {}
        /\ Discoverable(dir) = Discoverable(w.before)

\* tar exited with status 2 in a directory that already holds an archive.
C11_Witness ==
    /\ w.pc = "done"
    /\ w.tar_exit_status = Some(2)
    /\ get_snapshot_archives(dir) # {}

\* C12: when the link of a storage in staging/accounts does not resolve to
\* a regular file, archive_snapshot_package returns
\* StoragePathSymlinkInvalid at that storage: the version file has not been
\* written, tar has not been started and no archive is published; and every
\* storage is flushed right before its link is made.
C12_SymlinkInvalid ==
    /\ \A i \in Occurrences(w.log, "symlink_file") : i > 1 /\ w.log[i - 1] = "flush"
    /\ \A i \in Occurrences(w.log, "flush") :
          i < Len(w.log) /\ w.log[i + 1] = "symlink_file"
    /\ Occurrences(w.log, "write_version") # {} =>
          Cardinality(Occurrences(w.log, "symlink_file"))
             = Cardinality(Unwrap(w.package).storages)
    /\ (w.pc = "done" /\ w.result.tag = "StoragePathSymlinkInvalid") =>
          /\ w.log[Len(w.log)] = "symlink_file"
          /\ Cardinality(Occurrences(w.log, "symlink_file"))
                \in 1..Cardinality(Unwrap(w.package).storages)
          /\ Occurrences(w.log, "write_version") = {}
          /\ Occurrences(w.log, "tar_spawn") = {}
          /\ Discoverable(dir) = Discoverable(w.before)
          /\ Abandoned(dir) = Abandoned(w.before)

\* The link of the second storage of a package was found invalid.
C12_Witness ==
    /\ w.pc = "done"
    /\ w.result.tag = "StoragePathSymlinkInvalid"
    /\ Cardinality(Occurrences(w.log, "symlink_file")) = 2

\* C13: the name build_snapshot_archive_path makes parses back to its slot,
\* hash and format, the name build_incremental_snapshot_archive_path makes
\* parses back to its base slot, slot, hash and format; a name with a
\* spoiled slot, hash, extension, separator or prefix parses as neither (a
\* None, never an error); a full name never parses as incremental and an
\* incremental name never parses as full.
C13_FilenameRoundTrip ==
    op.name = "parsed" =>
        /\ op.result.tag = "Ok"
        /\ op.args[1].kind = "full" =>
              /\ op.result.val.full =
                    Some([slot |-> Unwrap(op.args[1].slot),
                          hash |-> Unwrap(op.args[1].hash),
                          archive_format |-> Unwrap(op.args[1].archive_format)])
              /\ op.result.val.incremental = None
        /\ op.args[1].kind = "incremental" =>
              /\ op.result.val.incremental =
                    Some([base_slot |-> Unwrap(op.args[1].base_slot),
                          slot |-> Unwrap(op.args[1].slot),
                          hash |-> Unwrap(op.args[1].hash),
                          archive_format |-> Unwrap(op.args[1].archive_format)])
              /\ op.result.val.full = None
        /\ op.args[1].kind = "malformed" =>
              /\ op.result.val.full = None
              /\ op.result.val.incremental = None

\* A two-digit incremental name in the bzip2 format parsed back.
C13_Witness ==
    /\ op.name = "parsed"
    /\ op.args[1].kind = "incremental"
    /\ op.args[1].base_slot = Some(MaxNameSlot - 1)
    /\ op.args[1].slot = Some(MaxNameSlot)
    /\ op.args[1].archive_format = Some("TarBzip2")
    /\ IsSome(op.result.val.incremental)

\* The slots of the incremental archives of a directory on the given base.
IncrementalSlotsOn(d, base_slot) ==
    {x.slot : x \in {i \in get_incremental_snapshot_archives(d) : i.base_slot = base_slot}}

HighestOf(S) == IF S = {} THEN None ELSE Some(CHOOSE s \in S : \A o \in S : o <= s)

\* C14: get_highest_snapshot_archive_slot returns the maximum slot over the
\* full archives of the directory, None when there is none;
\* get_highest_incremental_snapshot_archive_slot(dir, s) returns the
\* maximum slot over the incremental archives whose base slot is s, None
\* when there is none, whatever incremental archives on other bases exist.
C14_HighestQueries ==
    op.name = "highest" =>
        /\ op.result.val.full = {HighestOf(FullSlots(op.before))}
        /\ op.result.val.incremental =
              {HighestOf(IncrementalSlotsOn(op.before, op.args[1]))}

\* Base 1 has the incremental slots 2 and 3, and an incremental archive on
\* a higher base with a higher slot is in the directory.
C14_Witness ==
    /\ op.name = "highest"
    /\ op.args[1] = 1
    /\ IncrementalSlotsOn(op.before, 1) = {2, 3}
    /\ IncrementalEntry(MaxHighSlot, MaxHighSlot + 1) \in op.before
    /\ op.result.val.incremental = {Some(3)}
    /\ op.result.val.full = {Some(2)}

SizeLimitError(what) == get_io_error("too large snapshot data file to " \o what)

\* C15: when the serializer succeeds having written n bytes under the cap
\* c, serialize_snapshot_data_file_capped returns Ok(n) if n <= c (n = c
\* included) and the size-limit error if n > c; the count returned is the
\* number of bytes written to the file.
C15_SerializeCap ==
    (op.name = "serialize" /\ op.args[3].ok) =>
        /\ Len(op.args[3].bytes) <= op.args[2] => op.result = Ok(Len(op.args[3].bytes))
        /\ Len(op.args[3].bytes) > op.args[2] => op.result = SizeLimitError("serialize")
        /\ op.result.tag = "Ok" => op.result.val = Len(content[op.args[1]])

\* Exactly as many bytes as the cap allows were written.
C15_Witness ==
    /\ op.name = "serialize"
    /\ op.args[3].ok
    /\ op.args[2] = MaxBytes
    /\ Len(op.args[3].bytes) = MaxBytes
    /\ op.result = Ok(MaxBytes)

\* C16: when the capped serialize returns the size-limit error the write
\* was stopped before all bytes were written: the failed call leaves no
\* data file larger than the cap.
C16_StoppedAtCap ==
    (op.name = "serialize" /\ op.result = SizeLimitError("serialize")) =>
        Len(content[op.args[1]]) <= op.args[2]

\* The deserializer was invoked and returned Ok without reading past the end.
ReaderOk(file, consumes) ==
    /\ Occurrences(op.args[4], "deserializer") # {}
    /\ op.args[3].ok
    /\ consumes <= Len(file)

Before(log, first, second) ==
    \A j \in Occurrences(log, second) : \E i \in Occurrences(log, first) : i < j

\* C17: a data file larger than the cap makes
\* deserialize_snapshot_data_file_capped return the size-limit error
\* without opening the file and without invoking the deserializer; the
\* two-stream variant invokes the deserializer only after the full and (when
\* given) the incremental file have passed the size check.
C17_DeserializePreCheck ==
    /\ (op.name = "deserialize" /\ op.args[1] \in DOMAIN content
          /\ Len(content[op.args[1]]) > op.args[2]) =>
          /\ op.result = SizeLimitError("deserialize")
          /\ Occurrences(op.args[4], "open") = {}
          /\ Occurrences(op.args[4], "deserializer") = {}
    /\ (op.name = "deserialize_files"
          /\ Occurrences(op.args[4], "deserializer") # {}) =>
          /\ Len(content[op.args[1].full]) <= op.args[2]
          /\ Before(op.args[4], "metadata_full", "deserializer")
          /\ IsSome(op.args[1].incremental) =>
                /\ Len(content[Unwrap(op.args[1].incremental)]) <= op.args[2]
                /\ Occurrences(op.args[4], "metadata_incremental") # {}
                /\ Before(op.args[4], "metadata_incremental", "deserializer")

\* The full file passes the size check, the incremental file is too large:
\* the deserializer is not invoked.
C17_Witness ==
    /\ op.name = "deserialize_files"
    /\ IsSome(op.args[1].incremental)
    /\ <<"data-file">> \in DOMAIN content
    /\ Unwrap(op.args[1].incremental) \in DOMAIN content
    /\ Len(content[<<"data-file">>]) <= op.args[2]
    /\ Len(content[Unwrap(op.args[1].incremental)]) > op.args[2]
    /\ op.result = SizeLimitError("deserialize")
    /\ Occurrences(op.args[4], "deserializer") = {}

InvalidDataFile == get_io_error("invalid snapshot data file")

\* C18: after the deserializer has returned Ok, the capped deserialize
\* returns Ok(value) if and only if the bytes consumed are all the bytes of
\* the file, and the invalid-data-file error otherwise (trailing data); the
\* two-stream variant checks each stream and fails when either differs.
C18_ConsumptionCheck ==
    /\ (op.name = "deserialize" /\ op.args[1] \in DOMAIN content
          /\ ReaderOk(content[op.args[1]], op.args[3].consumes)) =>
          IF op.args[3].consumes = Len(content[op.args[1]])
          THEN op.result = Ok(content[op.args[1]])
          ELSE op.result = InvalidDataFile
    /\ (op.name = "deserialize_files" /\ op.args[1].full \in DOMAIN content
          /\ ReaderOk(content[op.args[1].full], op.args[3].consumes)) =>
          IF IsSome(op.args[1].incremental)
          THEN ReaderOk(content[Unwrap(op.args[1].incremental)],
                        op.args[3].incremental_consumes) =>
                  IF /\ op.args[3].consumes = Len(content[op.args[1].full])
                     /\ op.args[3].incremental_consumes
                           = Len(content[Unwrap(op.args[1].incremental)])
                  THEN op.result =
                          Ok([full |-> content[op.args[1].full],
                              incremental |->
                                 Some(content[Unwrap(op.args[1].incremental)])])
                  ELSE op.result = InvalidDataFile
          ELSE IF op.args[3].consumes = Len(content[op.args[1].full])
               THEN op.result = Ok([full |-> content[op.args[1].full],
                                    incremental |-> None])
               ELSE op.result = InvalidDataFile

\* The full stream was consumed to its end, the incremental stream was not.
C18_Witness ==
    /\ op.name = "deserialize_files"
    /\ IsSome(op.args[1].incremental)
    /\ Occurrences(op.args[4], "check_incremental") # {}
    /\ op.args[3].consumes = Len(content[<<"data-file">>])
    /\ op.args[3].incremental_consumes < Len(content[Unwrap(op.args[1].incremental)])
    /\ op.result = InvalidDataFile

\* C19: package_incremental_snapshot aborts on its assertion when a storage
\* entry has a slot at or below the incremental base slot, before the temp
\* directory is created and before anything is hard-linked; when every
\* storage entry's slot is above the base slot the assertion passes.
C19_IncrementalPackageAssert ==
    op.name = "package_incremental" =>
        IF \E entry \in op.args[2] : entry.slot <= op.args[1]
        THEN /\ op.result = Panic
             /\ op.args[3] = <<"assert">>
        ELSE /\ op.result # Panic
             /\ Len(op.args[3]) >= 2
             /\ op.args[3][1] = "assert"
             /\ op.args[3][2] = "tempdir"

\* One storage entry at the base slot among entries above it.
C19_Witness ==
    /\ op.name = "package_incremental"
    /\ op.args[1] > 0
    /\ \E entry \in op.args[2] : entry.slot = op.args[1]
    /\ \E entry \in op.args[2] : entry.slot > op.args[1]
    /\ \A entry \in op.args[2] : entry.slot >= op.args[1]
    /\ op.result = Panic

\* C20: every IncrementalSnapshotArchiveInfo that directory discovery or
\* the incremental build path produces has slot > base_slot.
C20_IncrementalAboveBase ==
    \A info \in get_incremental_snapshot_archives(dir) : info.slot > info.base_slot

FilesOf(d) == {e \in d : e.kind = "file"}

\* What the recorded purge leaves when every deletion succeeds.
PurgedClean ==
    purge_old_snapshot_archives(op.before, maximum_snapshots_to_retain, op.args[1], {})

\* C21: a deletion that fails in purge_old_snapshot_archives is not
\* propagated: every other deletion scheduled, of full and of incremental
\* archives, is still made, and archive_snapshot_package returns Ok.
C21_PurgeBestEffort ==
    op.name = "purge" =>
        /\ FilesOf(dir) = FilesOf(PurgedClean) \cup {e \in FilesOf(op.before) :
                                                      e.name \in op.args[2]}
        /\ w.pc = "done" => w.result.tag = "Ok"

\* One deletion failed, another one was made, and the call returned Ok.
C21_Witness ==
    /\ op.name = "purge"
    /\ w.pc = "done"
    /\ w.result.tag = "Ok"
    /\ FilesOf(dir) \ FilesOf(PurgedClean) # {}
    /\ FilesOf(op.before) \ FilesOf(dir) # {}

\* C27: whenever archive_snapshot_package returns Ok, the file at the
\* package's public archive path is in the output directory, whatever the
\* directory held before, whatever the slot of the package and its base.
C27_PublishedSurvives ==
    (w.pc = "done" /\ w.result.tag = "Ok") =>
        File(Unwrap(w.package).tar_output_file) \in dir

\* C22: once bank_to_snapshot_archive or
\* bank_to_incremental_snapshot_archive has returned, Ok or an error, the
\* staging directory of the call and the temporary archive file the call
\* created are gone.
C22_TempReleased ==
    w.pc = "done" =>
        /\ Directory(StagingDirName(Unwrap(w.package))) \notin dir
        /\ Occurrences(w.log, "create_tmp_archive") # {} =>
              File(TmpArchivePath(Unwrap(w.package))) \notin dir

\* An entry an interrupted build leaves behind: its name carries one of the
\* two temporary prefixes.
LeftoverTemp(e) ==
    \/ starts_with(e.name, TMP_SNAPSHOT_PREFIX)
    \/ starts_with(e.name, TMP_INCREMENTAL_SNAPSHOT_PREFIX)

\* C30: remove_tmp_snapshot_archives, all removals succeeding, removes every
\* temporary entry of full and of incremental builds, directories and
\* files, and leaves every other entry of the directory as it was.
C30_CrashCleanup ==
    (op.name = "remove_tmp" /\ op.args[1] = {}) =>
        dir = {e \in op.before : ~LeftoverTemp(e)}

\* What purge_old_snapshot_archives, all deletions succeeding, may leave of
\* the directory d: one outcome for each order the full archives of equal
\* slot may come in.
PurgeOutcomes(d) ==
    {purge_old_snapshot_archives(d, maximum_snapshots_to_retain, archives, {}) :
        archives \in get_sorted_snapshot_archives(d)}

\* C28: purge_old_snapshot_archives run a second time with the same
\* retention, all deletions succeeding, deletes nothing further: every
\* outcome of a purge of the purged directory is the purged directory.
C28_PurgeIdempotent ==
    op.name = "purge" => PurgeOutcomes(dir) = {dir}

\* A purge that deleted full and incremental archives and left both kinds.
C28_Witness ==
    /\ op.name = "purge"
    /\ FullPaths(dir) # FullPaths(op.before)
    /\ IncrementalPaths(dir) # IncrementalPaths(op.before)
    /\ Cardinality(FullPaths(dir)) >= 2
    /\ IncrementalPaths(dir) # {}

\* C29: the directory purge_old_snapshot_archives leaves is a function of
\* the names in the directory and the retention alone, also when two full
\* archives of one slot with different hashes exist: whatever order the
\* archives of equal slot come in, the outcome is the one observed.
C29_PurgeDeterministic ==
    op.name = "purge" => PurgeOutcomes(op.before) = {dir}

\* The entries all the archivers of a call extracted.
ExtractedBy(archivers) == UNION {archivers[i].extracted : i \in DOMAIN archivers}

\* C23: unpack_snapshot_local with N archivers hands archiver i the selector
\* (i, N); when no extraction fails each entry of the archive is extracted
\* by exactly one archiver and the extracted entries and the merged map are
\* those of a call with one archiver; when an archiver fails the call
\* returns an error.
C23_ParallelUnpack ==
    op.name = "unpack" =>
        /\ \A i \in 1..op.args[2] :
              op.args[4][i].selector = [index |-> i - 1, divisions |-> op.args[2]]
        /\ op.args[3] = {} =>
              /\ \A k \in DOMAIN op.args[1] :
                    Cardinality({i \in 1..op.args[2] :
                                    op.args[1][k] \in op.args[4][i].extracted}) = 1
              /\ op.result = unpack_snapshot_local(op.args[1], 1, {})
              /\ op.result.tag = "Ok"
              /\ ExtractedBy(op.args[4]) = ExtractedBy(Archivers(op.args[1], 1, {}))
        /\ (\E i \in 1..op.args[2] : op.args[4][i].result.tag # "Ok") =>
              op.result.tag # "Ok"

\* Three archivers on an archive of three entries, two of them append vecs,
\* each archiver extracting one entry; and a call where the last archiver
\* alone failed.
C23_Witness ==
    /\ op.name = "unpack"
    /\ op.args[2] = MaxWorkers
    /\ Len(op.args[1]) = 3
    /\ op.args[3] = {}
    /\ \A i \in 1..MaxWorkers : Cardinality(op.args[4][i].extracted) = 1
    /\ Cardinality(DOMAIN op.result.val) = 2

C23_WitnessFailure ==
    /\ op.name = "unpack"
    /\ op.args[2] = 2
    /\ op.args[4][1].result.tag = "Ok"
    /\ op.args[4][2].result.tag # "Ok"
    /\ op.result.tag = "UnpackError"

\* C24: the append vec map handed to the rebuild holds the keys of the full
\* archive's map and of the incremental archive's map; a key of the
\* incremental map carries the incremental archive's entry, every other key
\* the full archive's; without an incremental archive it is the full
\* archive's map.
C24_ShardMapMerge ==
    op.name = "merge" =>
        /\ IsSome(op.args[2]) =>
              /\ DOMAIN op.result.val = DOMAIN op.args[1] \cup DOMAIN Unwrap(op.args[2])
              /\ \A fn \in DOMAIN Unwrap(op.args[2]) :
                    op.result.val[fn] = Unwrap(op.args[2])[fn]
              /\ \A fn \in DOMAIN op.args[1] \ DOMAIN Unwrap(op.args[2]) :
                    op.result.val[fn] = op.args[1][fn]
        /\ ~IsSome(op.args[2]) => op.result.val = op.args[1]

\* Two maps with a key of their own each and a key in common that they map
\* differently.
C24_Witness ==
    /\ op.name = "merge"
    /\ IsSome(op.args[2])
    /\ DOMAIN op.args[1] \ DOMAIN Unwrap(op.args[2]) # {}
    /\ DOMAIN Unwrap(op.args[2]) \ DOMAIN op.args[1] # {}
    /\ \E fn \in DOMAIN op.args[1] \cap DOMAIN Unwrap(op.args[2]) :
          /\ op.args[1][fn] # Unwrap(op.args[2])[fn]
          /\ op.result.val[fn] = Unwrap(op.args[2])[fn]

\* The tree whose version and status cache a rebuild is to use: the
\* incremental archive's when there is one, else the full archive's.
Freshest(full, incremental) == IF IsSome(incremental) THEN Unwrap(incremental) ELSE full

Supported(tree) == IsSome(SnapshotVersionFromStr(tree.version))

\* C25: rebuild_bank_from_snapshots deserializes the bank in the style of
\* the incremental archive's version when there is an incremental archive
\* and of the full archive's otherwise; a version string that is not
\* supported, in either archive, gives an error with no deserialization
\* done; the slot deltas of the rebuilt bank are those of the incremental
\* archive's directory when there is one, else of the full archive's.
C25_VersionSelection ==
    op.name = "rebuild" =>
        /\ \A i \in Occurrences(op.args[4], "bank_from_streams") :
              Some(op.args[4][i + 1]) =
                  SnapshotVersionFromStr(Freshest(op.args[1], op.args[2]).version)
        /\ (~Supported(op.args[1]) \/ ~Supported(Freshest(op.args[1], op.args[2]))) =>
              /\ op.result = Err("Io", << >>)
              /\ Occurrences(op.args[4], "bank_from_streams") = {}
              /\ Occurrences(op.args[4], "status_cache") = {}
        /\ op.result.tag = "Ok" =>
              /\ op.result.val.slot_deltas =
                     Freshest(op.args[1], op.args[2]).status_cache
              /\ SubSeq(op.args[4], Len(op.args[4]) - 1, Len(op.args[4])) =
                     <<"status_cache",
                       IF IsSome(op.args[2]) THEN "incremental" ELSE "full">>

\* A rebuild from a full and an incremental tree whose version files differ
\* in the leading v and whose status caches differ: the bank carries the
\* incremental archive's slot deltas.
C25_Witness ==
    /\ op.name = "rebuild"
    /\ IsSome(op.args[2])
    /\ op.args[1].version = VERSION_STRING_V1_2_0
    /\ Unwrap(op.args[2]).version = <<"v">> \o VERSION_STRING_V1_2_0
    /\ op.args[1].status_cache # Unwrap(op.args[2]).status_cache
    /\ op.result.tag = "Ok"
    /\ op.result.val.slot_deltas = Unwrap(op.args[2]).status_cache
    /\ Occurrences(op.args[4], "bank_from_streams") # {}

\* A rebuild that stopped at the incremental archive's version file.
C25_WitnessUnsupported ==
    /\ op.name = "rebuild"
    /\ IsSome(op.args[2])
    /\ Supported(op.args[1])
    /\ ~Supported(Unwrap(op.args[2]))
    /\ op.args[4] = <<"verify_full_version", "verify_incremental_version">>

\* A restore from a full and an incremental archive whose names parse and
\* whose slots do not fit: the incremental archive's base slot is not the
\* full archive's slot.
IncompatiblePair ==
    /\ r.pc = "done"
    /\ IsSome(r.incremental)
    /\ check_are_snapshots_compatible(r.full, Unwrap(r.incremental)).tag
           = "IncompatibleSnapshots"

NeverRebuilds(log) ==
    /\ Occurrences(log, "bank_from_streams") = {}
    /\ Occurrences(log, "status_cache") = {}
    /\ Occurrences(log, "verify") = {}

\* C26: in a restore from a full and an incremental archive that do not fit,
\* both archives are unpacked, the compatibility check follows, the call
\* returns IncompatibleSnapshots and neither deserializes the bank nor loads
\* the status cache nor verifies.
C26_UnpackBothThenCheck ==
    IncompatiblePair =>
        /\ \E c \in Occurrences(r.log, "check_compatible") :
              /\ \E u \in Occurrences(r.log, "unpack_full") : u < c
              /\ \E u \in Occurrences(r.log, "unpack_incremental") : u < c
        /\ r.result.tag = "IncompatibleSnapshots"
        /\ NeverRebuilds(r.log)

\* C26, amended: in a restore from a full and an incremental archive that do
\* not fit, the full archive is unpacked, the compatibility check follows
\* and the incremental archive is not unpacked; the call returns
\* IncompatibleSnapshots with the full archive's slot and the incremental
\* archive's base slot, and neither deserializes the bank nor loads the
\* status cache nor verifies.  When the full archive cannot be unpacked the
\* call ends there with the unpack error.
C26_CheckBeforeIncrementalUnpack ==
    IncompatiblePair =>
        /\ \/ /\ r.log = <<"unpack_full", "check_compatible">>
              /\ r.result =
                     check_are_snapshots_compatible(r.full, Unwrap(r.incremental))
           \/ /\ r.log = <<"unpack_full">>
              /\ r.result.tag = "UnpackError"
        /\ Occurrences(r.log, "unpack_incremental") = {}
        /\ NeverRebuilds(r.log)

\* A restore of a full archive with an incremental archive built on an
\* earlier full archive, both complete on disk, that returned
\* IncompatibleSnapshots.
C26_Witness ==
    /\ IncompatiblePair
    /\ content[r.full].complete
    /\ content[Unwrap(r.incremental)].complete
    /\ IsSome(content[Unwrap(r.incremental)].base)
    /\ r.result.tag = "IncompatibleSnapshots"
    /\ r.result.val = <<Unwrap(content[r.full].of).slot,
                        Unwrap(content[Unwrap(r.incremental)].base)>>
=============================================================================
